---- MODULE Spec2Model ----
(***************************************************************************)
(* A model of the inter-process toolkit: ProcessManager (named child       *)
(* processes reached through duplex pipes, STOP / join / remove teardown), *)
(* the worker entry functions of the test-suite that run under it, and     *)
(* MessengerProcess with its standard run loop proc_loop.                  *)
(*                                                                         *)
(* A process is a pid.  pid 0 is the main (root) process; every            *)
(* add_process starts the next unused pid.  The pipe of child c is the     *)
(* pair down[c] (parent -> child) and up[c] (child -> parent), both FIFO.  *)
(* proc.join(1) is a blocking wait: it is the one place where a manager    *)
(* is suspended inside an operation, so close_process is two steps, the    *)
(* send and the return of the join.  Processes carry no clock: a join      *)
(* that returns while the child has not exited is the 1 s timeout.         *)
(*                                                                         *)
(* The Timed Loop of timing/timed_loop.py is modelled beside it: the loop  *)
(* object TL, a clock `now` in ticks of 5 ms, and the record of every call *)
(* made through the loop.                                                  *)
(***************************************************************************)
EXTENDS Integers, Sequences, FiniteSets, TLC

\* ------------------------------------------------------------------ bounds
\* add_process calls the nondeterministic main process may make
MaxAdd == 3
\* send() calls the nondeterministic main process may make
MaxSend == 3
\* sub-processes the setup of a Messenger Process may start
MaxKids == 2
\* send() calls of a main process that has two Messenger Process children
MaxSiblingSend == 2
\* _check_exit_condition calls the main process may make
MaxCheck == 2
\* operations a freely programmed Messenger Process may call, all processes
\* together
MaxFreeCalls == 3
\* calls made through a Timed Loop
MaxCalls == 4
\* change_dt / reset_start_time / synchronize calls made on a Timed Loop
MaxOps == 1

\* --------------------------------------------------------- program constants
\* boss_proc starts two mid_level_proc, each of them two worker_proc
NumMid == 2
NumWorker == 2

Root == 0
NoPid == 0 - 1
MaxPid == MaxAdd + 1 + NumMid + NumMid * NumWorker
Pids == 0..MaxPid

\* ---------------------------------------------------------------- messages
\* What travels on a pipe: a bare MP_TRANSPORT member, a Message (dict with a
\* 'type' key and possibly a 'val' key), or a plain string.  None is the
\* absent message (self.msg = None, send(msg=None)).
NoVal == "NoVal"
NoType == "-"
None == [kind |-> "none", type |-> NoType, val |-> NoVal]
STOP == [kind |-> "enum", type |-> "STOP", val |-> NoVal]
HEARTBEAT == [kind |-> "enum", type |-> "HEARTBEAT", val |-> NoVal]
Str(s) == [kind |-> "str", type |-> NoType, val |-> s]
create_message(type, val) == [kind |-> "dict", type |-> type, val |-> val]

Signals == {"STOP", "HEARTBEAT", "A", "B"}

\* variant: any message whose type is STOP counts as the stop signal
MsgIsStopByType(m) == m.type = "STOP"

\* type(msg) == MP_TRANSPORT and msg == MP_TRANSPORT.STOP
msg_is_stop_signal(m) == m.kind = "enum" /\ m.type = "STOP"

\* ------------------------------------------------------------------- state
VARIABLES
    pc,            \* pid -> where the process is
    kind,          \* pid -> the entry function it runs
    parentOf,      \* pid -> the pid holding the other end of link_to_parent
    nextPid,       \* the next pid add_process starts
    ext_proc,      \* pid -> its child table: sequence of [name, pid], in insertion order
    down,          \* pid -> messages sent to it by its parent, not yet received
    up,            \* pid -> messages it sent to its parent, not yet received
    ip,            \* pid -> position in the add_process script of its entry function
    toClose,       \* pid -> names close_all_processes still has to close (its snapshot)
    joining,       \* pid -> the name close_process is joining
    exiting,       \* pid -> __exit__ has been entered
    exc,           \* pid -> the exception that left its with-block (NoExc if none)
    nSent,         \* send() calls made by the main process
    nCheck,        \* _check_exit_condition calls made by the main process
    msg,           \* pid -> ProcessManager.msg, the most recent non-stop message
    should_stop,   \* pid -> MessengerProcess.should_stop
    recognized_signals, \* pid -> signal -> handler name ("none": not a key)
    hmRet,         \* pid -> what its last handle_messages call returned
    pmRet,         \* pid -> outcome of its last process_message call
    callLog,       \* pid -> calls proc_loop made in the current iteration
    nSetup,        \* pid -> times proc_loop called setup
    nTeardown,     \* pid -> times proc_loop called teardown
    checkRet,      \* pid -> outcome of its last _check_exit_condition call
    \* history, read by the properties only
    stopsSent,     \* pid -> STOP messages put on down[pid]
    registeredAtExit, \* pid -> pids in its table when its scope was left
    joinTimedOut,  \* some join returned while the child had not exited
    sentLog,       \* pid -> the non-stop values sent down to it, in order
    recvLog,       \* pid -> the non-stop values it has received, in order
    replyLog,      \* pid -> the replies it has sent up, in order
    dispatched,    \* pid -> messages its process_message handed to a handler
    lastSend,      \* arguments of the last send() call of the main process
    \* the Timed Loop of the main process
    TL,            \* the loop object: class, i, dt, init_time, iterations_per_update
    now,           \* time.perf_counter(), in ticks
    calls,         \* history: one record per call made through the loop
    ops,           \* history: the change_dt / reset_start_time / synchronize
                   \* calls made, each with the number of calls made before it
    fnLog,         \* history: the wrapped function each call was made through
    factory,       \* outcome of the last get_timed_loop call
    \* a Messenger Process whose code calls its operations in any order
    nCall,         \* operations called so far
    lastCall       \* the last of them: who called what, on what, with what result

mgrVars == <<pc, kind, parentOf, nextPid, ext_proc, down, up, ip, toClose,
             joining, exiting, exc, nSent, nCheck>>
msgVars == <<msg, should_stop, recognized_signals, hmRet, pmRet, callLog,
             nSetup, nTeardown, checkRet>>
histRest == <<joinTimedOut, sentLog, recvLog, replyLog, dispatched, lastSend>>
histVars == <<stopsSent, registeredAtExit, histRest>>
tlVars == <<TL, now, calls, ops, fnLog, factory>>
freeVars == <<nCall, lastCall>>
vars == <<mgrVars, msgVars, histVars, tlVars, freeVars>>

\* an exception of Python type `type` raised by operation `op`
Exc(type, op) == [type |-> type, op |-> op]
NoExc == Exc("none", "-")

\* proc_name=None: the parent channel
NoName == "-"

\* no operation has been called yet
NoCallYet == [pid |-> NoPid, op |-> "-", target |-> NoName, ret |-> "-", msg |-> None]

\* ------------------------------------------------------------ child table
HasName(tbl, name) == \E i \in 1..Len(tbl) : tbl[i].name = name
PidOf(tbl, name) == tbl[CHOOSE i \in 1..Len(tbl) : tbl[i].name = name].pid
NamesOf(tbl) == [i \in 1..Len(tbl) |-> tbl[i].name]
PidsOf(tbl) == {tbl[i].pid : i \in 1..Len(tbl)}
Alive(p) == pc[p] \notin {"unborn", "done"}

\* --------------------------------------------------------- entry functions
RootKinds == {"timed_loop_tests", "driver", "messenger_main", "test_single_level", "test_three_level", "test_message_queue",
              "test_create_process_fn", "two_children",
              "test_process_should_continue"}

\* the add_process calls an entry function makes at the start of its with-block
Script(f) ==
    CASE f = "test_three_level" ->
            <<[name |-> "boss_proc", f |-> "boss_proc"]>>
      [] f = "test_message_queue" ->
            <<[name |-> "msg_proc1", f |-> "msg_proc"]>>
      [] f = "test_create_process_fn" ->
            <<[name |-> "child", f |-> "proc_loop"]>>
      [] f = "test_process_should_continue" ->
            <<[name |-> "child_proc", f |-> "check_msg_proc"]>>
      [] f = "test_single_level" ->
            <<[name |-> "my_proc1", f |-> "my_proc"],
              [name |-> "my_proc2", f |-> "my_proc"]>>
      [] f = "messenger_main" ->
            <<[name |-> "child", f |-> "messenger"]>>
      [] f = "two_children" ->
            <<[name |-> "child", f |-> "proc_loop"],
              [name |-> "child2", f |-> "proc_loop"]>>
      [] f = "boss_proc" ->
            <<[name |-> "mid_level_proc1/", f |-> "mid_level_proc"],
              [name |-> "mid_level_proc2/", f |-> "mid_level_proc"]>>
      [] f = "mid_level_proc" ->
            <<[name |-> "worker_proc1", f |-> "worker_proc"],
              [name |-> "worker_proc2", f |-> "worker_proc"]>>
      [] OTHER -> <<>>

\* my_proc polls its raw link_to_parent; the others run inside a manager scope
UsesManager(f) == f # "my_proc"

\* the entry functions that poll for STOP in a `while True` loop
StopLoopKinds == {"my_proc", "worker_proc", "mid_level_proc", "boss_proc"}

StartPc(f) ==
    IF Script(f) # <<>> THEN "body"
    ELSE IF f = "proc_loop" THEN "setup"
    ELSE IF f \in {"long_proc", "messenger"} THEN "body"
    ELSE "loop"

\* where a scripted process goes once its add_process calls are made
AfterScript(f) == IF f \in RootKinds THEN "body" ELSE "loop"

\* ------------------------------------------------ ProcessManager operations
\* variant: the snapshot misses the name added last
SnapshotDropsLast(tbl) ==
    IF tbl = <<>> THEN <<>> ELSE SubSeq(NamesOf(tbl), 1, Len(tbl) - 1)

\* variant: __exit__ closes nothing
SnapshotEmpty(tbl) == <<>>

\* variant: the snapshot misses the name added first
SnapshotDropsFirst(tbl) ==
    IF tbl = <<>> THEN <<>> ELSE Tail(NamesOf(tbl))

\* close_all_processes: `for k in self.ext_proc.copy()`
Snapshot(tbl) == NamesOf(tbl)

\* variant: the entry is deleted only when the child has exited
AfterJoinKeepsLive(tbl, name, exited) ==
    IF exited THEN SelectSeq(tbl, LAMBDA r : r.name # name) ELSE tbl

\* close_process after proc.join(1): the exit code is logged, the entry deleted
AfterJoin(tbl, name, exited) == SelectSeq(tbl, LAMBDA r : r.name # name)

\* __exit__ is entered, with exception e propagating (NoExc: normal end of
\* the with-block), and close_all_processes takes its snapshot
EnterExit(p, e) ==
    /\ exc' = [exc EXCEPT ![p] = e]
    /\ exiting' = [exiting EXCEPT ![p] = TRUE]
    /\ toClose' = [toClose EXCEPT ![p] = Snapshot(ext_proc[p])]
    /\ registeredAtExit' = [registeredAtExit EXCEPT ![p] = PidsOf(ext_proc[p])]

\* variant: the reference is not stored
ExtProcNotSet(tbl, name, pid) == tbl

\* add_process: `self.ext_proc[name] = ProcessReference(name, link_to_child,
\* proc)`, pid standing for the new process and its pipe
ext_proc_set(tbl, name, pid) == Append(tbl, [name |-> name, pid |-> pid])

\* add_process: the pipe is made and the process started, then the name is
\* looked up; a name already in the table raises RuntimeError
add_process(p, name, f, okPc) ==
    /\ nextPid <= MaxPid
    /\ nextPid' = nextPid + 1
    /\ kind' = [kind EXCEPT ![nextPid] = f]
    /\ parentOf' = [parentOf EXCEPT ![nextPid] = p]
    /\ IF HasName(ext_proc[p], name)
       THEN /\ pc' = [pc EXCEPT ![nextPid] = StartPc(f), ![p] = "closing"]
            /\ EnterExit(p, Exc("RuntimeError", "add_process"))
            /\ UNCHANGED ext_proc
       ELSE /\ pc' = [pc EXCEPT ![nextPid] = StartPc(f), ![p] = okPc]
            /\ ext_proc' = [ext_proc EXCEPT ![p] = ext_proc_set(@, name, nextPid)]
            /\ UNCHANGED <<exc, exiting, toClose, registeredAtExit>>
    /\ UNCHANGED <<down, up, joining, nSent, nCheck, stopsSent>>

\* close_process up to proc.join(1): `proc_ref = self.ext_proc[name]` raises
\* KeyError for a name not in the table, else STOP is sent and the join
\* begins.  rest: the names close_all_processes has left after this one.
close_process(p, name, rest) ==
    /\ IF HasName(ext_proc[p], name)
       THEN LET c == PidOf(ext_proc[p], name) IN
            /\ down' = [down EXCEPT ![c] = Append(@, STOP)]
            /\ stopsSent' = [stopsSent EXCEPT ![c] = @ + 1]
            /\ joining' = [joining EXCEPT ![p] = name]
            /\ toClose' = [toClose EXCEPT ![p] = rest]
            /\ pc' = [pc EXCEPT ![p] = "joining"]
            /\ UNCHANGED <<exc, exiting, registeredAtExit>>
       ELSE /\ pc' = [pc EXCEPT ![p] = "closing"]
            /\ EnterExit(p, Exc("KeyError", "close_process"))
            /\ UNCHANGED <<down, stopsSent, joining>>
    /\ UNCHANGED <<kind, parentOf, nextPid, ext_proc, up, ip, nSent, nCheck>>

\* variant: the join has no timeout
JoinWaitsForExit(exited) == exited

\* proc.join(1) can return: the child has exited, or 1 s has passed
join_returns(exited) == TRUE

\* proc.join(1) returns, because the child exited or because 1 s passed, and
\* close_process deletes the entry
JoinReturn(p) ==
    /\ pc[p] = "joining"
    /\ LET c == PidOf(ext_proc[p], joining[p])
           exited == pc[c] = "done"
       IN /\ join_returns(exited)
          /\ ext_proc' = [ext_proc EXCEPT ![p] = AfterJoin(@, joining[p], exited)]
          /\ joinTimedOut' = (joinTimedOut \/ ~exited)
    /\ pc' = [pc EXCEPT ![p] = IF exiting[p] THEN "closing" ELSE "body"]
    /\ UNCHANGED <<kind, parentOf, nextPid, down, up, ip, toClose, joining,
                   exiting, exc, nSent, nCheck>>
    /\ UNCHANGED <<stopsSent, registeredAtExit, sentLog, recvLog, replyLog,
                   dispatched, lastSend>>
    /\ UNCHANGED msgVars
    /\ UNCHANGED <<tlVars, freeVars>>

\* close_all_processes: close the next name of the snapshot, or return from
\* __exit__ when none is left; the process function then ends
CloseNext(p) ==
    /\ pc[p] = "closing"
    /\ IF toClose[p] = <<>>
       THEN /\ pc' = [pc EXCEPT ![p] = "done"]
            /\ UNCHANGED <<kind, parentOf, nextPid, ext_proc, down, up, ip,
                           toClose, joining, exiting, exc, nSent, nCheck>>
            /\ UNCHANGED <<stopsSent, registeredAtExit>>
       ELSE close_process(p, Head(toClose[p]), Tail(toClose[p]))
    /\ UNCHANGED <<msgVars, histRest>>
    /\ UNCHANGED <<tlVars, freeVars>>

\* ----------------------------------------------- the main process (driver)
\* The main process of a test: `with ProcessManager(...) as p:` followed by
\* any sequence of calls on p, with child names from N and entry functions
\* from F.
Names == {"child1", "child2"}

\* the main process is in its with-block, past the add_process calls of its script
InBody ==
    /\ kind[Root] \in RootKinds /\ pc[Root] = "body"
    /\ ip[Root] > Len(Script(kind[Root]))

DriverAdd(N, F) ==
    \E name \in N, f \in F :
        /\ kind[Root] = "driver" /\ pc[Root] = "body"
        /\ nextPid <= MaxAdd
        /\ add_process(Root, name, f, "body")
        /\ UNCHANGED <<ip, msgVars, histRest>>
        /\ UNCHANGED <<tlVars, freeVars>>

DriverClose(N) ==
    \E name \in N :
        /\ InBody
        /\ close_process(Root, name, toClose[Root])
        /\ UNCHANGED <<msgVars, histRest>>
        /\ UNCHANGED <<tlVars, freeVars>>

\* the with-block of the main process ends normally
DriverEnd ==
    /\ InBody
    /\ pc' = [pc EXCEPT ![Root] = "closing"]
    /\ EnterExit(Root, NoExc)
    /\ UNCHANGED <<kind, parentOf, nextPid, ext_proc, down, up, ip, joining,
                   nSent, nCheck, stopsSent>>
    /\ UNCHANGED <<msgVars, histRest>>
    /\ UNCHANGED <<tlVars, freeVars>>

\* ------------------------------------------- entry functions of the tests
\* boss_proc, mid_level_proc, test_three_level: the next add_process call
ScriptAdd(p) ==
    /\ pc[p] = "body"
    /\ ip[p] <= Len(Script(kind[p]))
    /\ LET s == Script(kind[p])[ip[p]] IN
          add_process(p, s.name, s.f,
                      IF ip[p] = Len(Script(kind[p]))
                      THEN AfterScript(kind[p]) ELSE "body")
    /\ ip' = [ip EXCEPT ![p] = @ + 1]
    /\ UNCHANGED <<msgVars, histRest>>
    /\ UNCHANGED <<tlVars, freeVars>>

\* my_proc, worker_proc, mid_level_proc, boss_proc: one iteration of the
\* `while True` loop that finds a message: STOP breaks out of the loop (and,
\* under a manager, out of its with-block), anything else is dropped
StopLoop(p) ==
    /\ kind[p] \in StopLoopKinds /\ pc[p] = "loop"
    /\ down[p] # <<>>
    /\ down' = [down EXCEPT ![p] = Tail(@)]
    /\ IF msg_is_stop_signal(Head(down[p]))
       THEN IF UsesManager(kind[p])
            THEN /\ pc' = [pc EXCEPT ![p] = "closing"]
                 /\ EnterExit(p, NoExc)
            ELSE /\ pc' = [pc EXCEPT ![p] = "done"]
                 /\ UNCHANGED <<exc, exiting, toClose, registeredAtExit>>
       ELSE UNCHANGED <<pc, exc, exiting, toClose, registeredAtExit>>
    /\ UNCHANGED <<kind, parentOf, nextPid, ext_proc, up, ip, joining, nSent, nCheck,
                   stopsSent>>
    /\ UNCHANGED <<msgVars, histRest>>
    /\ UNCHANGED <<tlVars, freeVars>>

\* long_proc: sleeps, sends 'timeout' up and leaves its with-block; it never
\* reads its parent channel
LongProc(p) ==
    /\ kind[p] = "long_proc" /\ pc[p] = "body"
    /\ up' = [up EXCEPT ![p] = Append(@, Str("timeout"))]
    /\ pc' = [pc EXCEPT ![p] = "closing"]
    /\ EnterExit(p, NoExc)
    /\ UNCHANGED <<kind, parentOf, nextPid, ext_proc, down, ip, joining, nSent, nCheck,
                   stopsSent>>
    /\ UNCHANGED <<msgVars, histRest>>
    /\ UNCHANGED <<tlVars, freeVars>>

\* ------------------------------------------------- ProcessManager messaging
\* connection.poll(0): a message is waiting
poll(chan) == chan # <<>>

\* variant: the message put on the channel last is read first
RecvNewest(chan) == chan[Len(chan)]

\* connection.recv(), called after poll returned True
recv(chan) == Head(chan)

\* variant: a send with no message is passed on to the channel
SendErrorAllowsNone(p, target, m) ==
    IF target = NoName
    THEN IF parentOf[p] = NoPid THEN Exc("ValueError", "send") ELSE NoExc
    ELSE IF HasName(ext_proc[p], target) THEN NoExc
         ELSE Exc("KeyError", "send")

\* send(proc_name, msg): ValueError for msg None, and for proc_name None on
\* a manager without link_to_parent; KeyError for a name not in the table
send_error(p, target, m) ==
    IF m = None THEN Exc("ValueError", "send")
    ELSE IF target = NoName
         THEN IF parentOf[p] = NoPid THEN Exc("ValueError", "send") ELSE NoExc
         ELSE IF HasName(ext_proc[p], target) THEN NoExc
              ELSE Exc("KeyError", "send")

\* the main process calls send(target, m)
DriverSend(N, V) ==
    \E target \in N \cup {NoName}, m \in V \cup {None} :
        /\ InBody
        /\ nSent < MaxSend
        /\ nSent' = nSent + 1
        /\ lastSend' = [target |-> target, msg |-> m]
        /\ IF send_error(Root, target, m) = NoExc
           THEN LET c == PidOf(ext_proc[Root], target) IN
                /\ down' = [down EXCEPT ![c] = Append(@, m)]
                /\ stopsSent' = [stopsSent EXCEPT
                                    ![c] = IF m = STOP THEN @ + 1 ELSE @]
                /\ sentLog' = [sentLog EXCEPT
                                  ![c] = IF msg_is_stop_signal(m) THEN @
                                         ELSE Append(@, m)]
                /\ UNCHANGED <<pc, exc, exiting, toClose, registeredAtExit>>
           ELSE /\ pc' = [pc EXCEPT ![Root] = "closing"]
                /\ EnterExit(Root, send_error(Root, target, m))
                /\ UNCHANGED <<down, stopsSent, sentLog>>
        /\ UNCHANGED <<kind, parentOf, nextPid, ext_proc, up, ip, joining, nCheck>>
        /\ UNCHANGED <<msgVars, joinTimedOut, recvLog, replyLog, dispatched>>
        /\ UNCHANGED <<tlVars, freeVars>>

\* the main process polls a child by name and receives what is waiting
DriverRecv(N) ==
    \E name \in N :
        /\ InBody
        /\ HasName(ext_proc[Root], name)
        /\ LET c == PidOf(ext_proc[Root], name) IN
           /\ poll(up[c])
           /\ up' = [up EXCEPT ![c] = Tail(@)]
           /\ recvLog' = [recvLog EXCEPT ![Root] = Append(@, recv(up[c]))]
        /\ UNCHANGED <<pc, kind, parentOf, nextPid, ext_proc, down, ip, toClose,
                       joining, exiting, exc, nSent, nCheck>>
        /\ UNCHANGED <<msgVars, stopsSent, registeredAtExit, joinTimedOut,
                       sentLog, replyLog, dispatched, lastSend>>
        /\ UNCHANGED <<tlVars, freeVars>>

\* variant: any message whose type is STOP counts as the stop sentinel
CheckExitAnyStopType(chan, slot) ==
    IF poll(chan)
    THEN IF recv(chan).type = "STOP"
         THEN [ret |-> TRUE, chan |-> Tail(chan), msg |-> slot]
         ELSE [ret |-> FALSE, chan |-> Tail(chan), msg |-> recv(chan)]
    ELSE [ret |-> FALSE, chan |-> chan, msg |-> slot]

\* variant: a non-stop message is received and not stored
CheckExitForgetsMsg(chan, slot) ==
    IF poll(chan)
    THEN [ret |-> msg_is_stop_signal(recv(chan)), chan |-> Tail(chan), msg |-> slot]
    ELSE [ret |-> FALSE, chan |-> chan, msg |-> slot]

\* _check_exit_condition on a manager with a parent channel: what it returns,
\* what is left on the channel and what self.msg holds afterwards
check_exit_condition(chan, slot) ==
    IF poll(chan)
    THEN IF msg_is_stop_signal(recv(chan))
         THEN [ret |-> TRUE, chan |-> Tail(chan), msg |-> slot]
         ELSE [ret |-> FALSE, chan |-> Tail(chan), msg |-> recv(chan)]
    ELSE [ret |-> FALSE, chan |-> chan, msg |-> slot]

\* variant: the check for the missing parent channel is left out
CheckExitErrorNever(p) == NoExc

\* _check_exit_condition: `if self.link_to_parent is None: raise ValueError`
check_exit_error(p) ==
    IF parentOf[p] = NoPid THEN Exc("ValueError", "_check_exit_condition")
    ELSE NoExc

\* process_should_continue: `return not self._check_exit_condition()`
process_should_continue(chan, slot) == ~check_exit_condition(chan, slot).ret

\* check_msg_proc: one evaluation of `while cm.process_should_continue()`;
\* the loop body only sleeps
CheckMsgLoop(p) ==
    /\ kind[p] = "check_msg_proc" /\ pc[p] = "loop"
    /\ check_exit_error(p) = NoExc
    /\ LET r == check_exit_condition(down[p], msg[p]) IN
       /\ down' = [down EXCEPT ![p] = r.chan]
       /\ msg' = [msg EXCEPT ![p] = r.msg]
       /\ checkRet' = [checkRet EXCEPT ![p] = IF r.ret THEN "True" ELSE "False"]
    /\ IF process_should_continue(down[p], msg[p])
       THEN UNCHANGED <<pc, exc, exiting, toClose, registeredAtExit>>
       ELSE /\ pc' = [pc EXCEPT ![p] = "closing"]
            /\ EnterExit(p, NoExc)
    /\ UNCHANGED <<kind, parentOf, nextPid, ext_proc, up, ip, joining, nSent,
                   nCheck>>
    /\ UNCHANGED <<should_stop, recognized_signals, hmRet, pmRet, callLog,
                   nSetup, nTeardown>>
    /\ UNCHANGED <<stopsSent, histRest>>
    /\ UNCHANGED <<tlVars, freeVars>>

\* the main process calls _check_exit_condition on its own manager; the
\* caller may catch the error (assertRaises) or let it leave the with-block
DriverCheckExit ==
    /\ InBody
    /\ nCheck < MaxCheck
    /\ nCheck' = nCheck + 1
    /\ LET e == check_exit_error(Root) IN
       /\ checkRet' = [checkRet EXCEPT
                          ![Root] = IF e # NoExc THEN e.type ELSE "False"]
       /\ \E caught \in BOOLEAN :
             IF caught \/ e = NoExc
             THEN UNCHANGED <<pc, exc, exiting, toClose, registeredAtExit>>
             ELSE /\ pc' = [pc EXCEPT ![Root] = "closing"]
                  /\ EnterExit(Root, e)
    /\ UNCHANGED <<kind, parentOf, nextPid, ext_proc, down, up, ip, joining,
                   nSent>>
    /\ UNCHANGED <<msg, should_stop, recognized_signals, hmRet, pmRet, callLog,
                   nSetup, nTeardown>>
    /\ UNCHANGED <<stopsSent, histRest>>
    /\ UNCHANGED <<tlVars, freeVars>>

\* msg_proc: `while cm.process_should_continue()` finds a message waiting
EchoCheck(p) ==
    /\ kind[p] = "msg_proc" /\ pc[p] = "loop"
    /\ poll(down[p])
    /\ LET r == check_exit_condition(down[p], msg[p]) IN
       /\ down' = [down EXCEPT ![p] = r.chan]
       /\ msg' = [msg EXCEPT ![p] = r.msg]
       /\ checkRet' = [checkRet EXCEPT ![p] = IF r.ret THEN "True" ELSE "False"]
       /\ recvLog' = [recvLog EXCEPT
                         ![p] = IF r.ret THEN @ ELSE Append(@, recv(down[p]))]
       /\ IF r.ret
          THEN /\ pc' = [pc EXCEPT ![p] = "closing"]
               /\ EnterExit(p, NoExc)
          ELSE /\ pc' = [pc EXCEPT ![p] = "reply"]
               /\ UNCHANGED <<exc, exiting, toClose, registeredAtExit>>
    /\ UNCHANGED <<kind, parentOf, nextPid, ext_proc, up, ip, joining, nSent, nCheck>>
    /\ UNCHANGED <<should_stop, recognized_signals, hmRet, pmRet, callLog,
                   nSetup, nTeardown>>
    /\ UNCHANGED <<stopsSent, joinTimedOut, sentLog, replyLog, dispatched,
                   lastSend>>
    /\ UNCHANGED <<tlVars, freeVars>>

\* msg_proc, the loop body: reply once if self.msg is set, and clear it
EchoBody(p) ==
    /\ kind[p] = "msg_proc" /\ pc[p] = "reply"
    /\ IF msg[p] # None
       THEN /\ up' = [up EXCEPT ![p] = Append(@, Str("gday mate"))]
            /\ replyLog' = [replyLog EXCEPT ![p] = Append(@, msg[p])]
       ELSE UNCHANGED <<up, replyLog>>
    /\ msg' = [msg EXCEPT ![p] = None]
    /\ pc' = [pc EXCEPT ![p] = "loop"]
    /\ UNCHANGED <<kind, parentOf, nextPid, ext_proc, down, ip, toClose,
                   joining, exiting, exc, nSent, nCheck>>
    /\ UNCHANGED <<should_stop, recognized_signals, hmRet, pmRet, callLog,
                   nSetup, nTeardown, checkRet>>
    /\ UNCHANGED <<stopsSent, registeredAtExit, joinTimedOut, sentLog, recvLog,
                   dispatched, lastSend>>
    /\ UNCHANGED <<tlVars, freeVars>>

\* -------------------------------------------------------- MessengerProcess
NoRet == "NoRet"
NoCall == [handler |-> "none", ret |-> NoRet, exc |-> "none"]

\* variant: the table is rebuilt with the new entry only
AddSignalResetsTable(table, signal, fn) ==
    [s \in DOMAIN table |-> IF s = signal THEN fn ELSE "none"]

\* add_signal(signal, fn): `self.recognized_signals[signal] = fn`
add_signal(table, signal, fn) == [table EXCEPT ![signal] = fn]

\* fn(**msg) for the handlers in use: heartbeat(*args, **kwargs) logs and
\* returns None; fn(val, **kwargs) returns val and cannot be called without it
CallHandler(h, m) ==
    IF h = "heartbeat" THEN [ret |-> "None", exc |-> "none"]
    ELSE IF m.val # NoVal THEN [ret |-> m.val, exc |-> "none"]
    ELSE [ret |-> NoRet, exc |-> "TypeError"]

\* variant: a type without handler is ignored and None returned
ProcessMessageSwallows(table, m) ==
    IF m.kind # "dict"
    THEN [handler |-> "none", ret |-> NoRet, exc |-> "TypeError"]
    ELSE IF table[m.type] # "none"
    THEN [handler |-> table[m.type],
          ret |-> CallHandler(table[m.type], m).ret,
          exc |-> CallHandler(table[m.type], m).exc]
    ELSE [handler |-> "none", ret |-> "None", exc |-> "none"]

\* process_message(msg): msg['type'] is looked up in recognized_signals; the
\* handler found is called with the fields of msg, else AttributeError
process_message(table, m) ==
    IF m.kind # "dict"
    THEN [handler |-> "none", ret |-> NoRet, exc |-> "TypeError"]
    ELSE IF table[m.type] # "none"
    THEN [handler |-> table[m.type],
          ret |-> CallHandler(table[m.type], m).ret,
          exc |-> CallHandler(table[m.type], m).exc]
    ELSE [handler |-> "none", ret |-> NoRet, exc |-> "AttributeError"]

\* variant: STOP sets the flag and is dispatched like any message
HandleMessagesDispatchesStop(chan, table, flag) ==
    IF ~poll(chan)
    THEN [ret |-> "False", chan |-> chan, should_stop |-> flag, pm |-> NoCall,
          called |-> FALSE]
    ELSE [ret |-> IF process_message(table, recv(chan)).exc = "none"
                  THEN "True" ELSE "raised",
          chan |-> Tail(chan),
          should_stop |-> flag \/ msg_is_stop_signal(recv(chan)),
          pm |-> process_message(table, recv(chan)),
          called |-> TRUE]

\* variant: the flag is cleared at the start of every call
HandleMessagesResetsFlag(chan, table, flag) ==
    IF ~poll(chan)
    THEN [ret |-> "False", chan |-> chan, should_stop |-> FALSE, pm |-> NoCall,
          called |-> FALSE]
    ELSE IF msg_is_stop_signal(recv(chan))
    THEN [ret |-> "True", chan |-> Tail(chan), should_stop |-> TRUE,
          pm |-> NoCall, called |-> FALSE]
    ELSE [ret |-> IF process_message(table, recv(chan)).exc = "none"
                  THEN "True" ELSE "raised",
          chan |-> Tail(chan), should_stop |-> FALSE,
          pm |-> process_message(table, recv(chan)),
          called |-> TRUE]

\* handle_messages on a channel: what it returns ("raised" when the dispatch
\* raised), what is left on the channel, the stop flag, and the outcome of
\* process_message when it was called
handle_messages(chan, table, flag) ==
    IF ~poll(chan)
    THEN [ret |-> "False", chan |-> chan, should_stop |-> flag, pm |-> NoCall,
          called |-> FALSE]
    ELSE IF msg_is_stop_signal(recv(chan))
    THEN [ret |-> "True", chan |-> Tail(chan), should_stop |-> TRUE,
          pm |-> NoCall, called |-> FALSE]
    ELSE [ret |-> IF process_message(table, recv(chan)).exc = "none"
                  THEN "True" ELSE "raised",
          chan |-> Tail(chan), should_stop |-> flag,
          pm |-> process_message(table, recv(chan)),
          called |-> TRUE]

LoopPcs == {"setup", "handle", "check", "routine", "pace", "teardown"}

\* proc_loop: m.setup().  The base class does nothing; a subclass may
\* register handlers here and may fail.
ProcSetup(p) ==
    /\ kind[p] = "proc_loop" /\ pc[p] = "setup"
    /\ nSetup' = [nSetup EXCEPT ![p] = @ + 1]
    /\ \E raises \in BOOLEAN, registersA \in BOOLEAN :
          IF raises
          THEN /\ pc' = [pc EXCEPT ![p] = "closing"]
               /\ EnterExit(p, Exc("Error", "setup"))
               /\ UNCHANGED recognized_signals
          ELSE /\ pc' = [pc EXCEPT ![p] = "handle"]
               /\ recognized_signals' =
                     [recognized_signals EXCEPT
                         ![p] = IF registersA THEN add_signal(@, "A", "fn") ELSE @]
               /\ UNCHANGED <<exc, exiting, toClose, registeredAtExit>>
    /\ UNCHANGED <<kind, parentOf, nextPid, ext_proc, down, up, ip, joining, nSent, nCheck>>
    /\ UNCHANGED <<msg, should_stop, hmRet, pmRet, callLog, nTeardown, checkRet>>
    /\ UNCHANGED <<stopsSent, histRest>>
    /\ UNCHANGED <<tlVars, freeVars>>

\* proc_loop: m.setup() of a subclass that owns sub-processes: one
\* add_process call made inside setup.  A name already in the table raises
\* RuntimeError out of setup and of the loop.
KidNames == {"kid1", "kid2"}

ProcSetupAdd(p) ==
    /\ kind[p] = "proc_loop" /\ pc[p] = "setup"
    /\ parentOf[p] = Root
    /\ nextPid <= 1 + MaxKids
    /\ \E name \in KidNames :
          /\ add_process(p, name, "worker_proc", "setup")
          /\ nSetup' = [nSetup EXCEPT
                            ![p] = IF HasName(ext_proc[p], name) THEN @ + 1 ELSE @]
    /\ UNCHANGED <<ip, histRest>>
    /\ UNCHANGED <<msg, should_stop, recognized_signals, hmRet, pmRet, callLog,
                   nTeardown, checkRet>>
    /\ UNCHANGED <<tlVars, freeVars>>

\* proc_loop: m.handle_messages(), on the parent channel
ProcHandle(p) ==
    /\ kind[p] = "proc_loop" /\ pc[p] = "handle"
    /\ LET r == handle_messages(down[p], recognized_signals[p], should_stop[p]) IN
       /\ down' = [down EXCEPT ![p] = r.chan]
       /\ should_stop' = [should_stop EXCEPT ![p] = r.should_stop]
       /\ hmRet' = [hmRet EXCEPT ![p] = r.ret]
       /\ pmRet' = [pmRet EXCEPT ![p] = r.pm]
       /\ dispatched' = [dispatched EXCEPT
                            ![p] = IF r.pm.handler # "none"
                                   THEN Append(@, recv(down[p])) ELSE @]
       /\ recvLog' = [recvLog EXCEPT
                         ![p] = IF r.called THEN Append(@, recv(down[p])) ELSE @]
       /\ IF r.ret = "raised"
          THEN /\ pc' = [pc EXCEPT ![p] = "closing"]
               /\ EnterExit(p, Exc(r.pm.exc, "process_message"))
          ELSE /\ pc' = [pc EXCEPT ![p] = "check"]
               /\ UNCHANGED <<exc, exiting, toClose, registeredAtExit>>
    /\ callLog' = [callLog EXCEPT ![p] = <<"handle_messages">>]
    /\ UNCHANGED <<kind, parentOf, nextPid, ext_proc, up, ip, joining, nSent, nCheck>>
    /\ UNCHANGED <<msg, recognized_signals, nSetup, nTeardown, checkRet>>
    /\ UNCHANGED <<stopsSent, joinTimedOut, sentLog, replyLog, lastSend>>
    /\ UNCHANGED <<tlVars, freeVars>>

\* variant: the loop does not break on the stop flag
AfterCheckIgnoresFlag(flag) == "routine"

\* variant: the loop breaks at its first stop check
AfterCheckAlwaysBreaks(flag) == "teardown"

\* proc_loop: `if m.should_stop_loop(): break / else: m.loop_routine()`
AfterCheck(flag) == IF flag THEN "teardown" ELSE "routine"

\* proc_loop: m.should_stop_loop()
ProcCheck(p) ==
    /\ kind[p] = "proc_loop" /\ pc[p] = "check"
    /\ pc' = [pc EXCEPT ![p] = AfterCheck(should_stop[p])]
    /\ callLog' = [callLog EXCEPT ![p] = Append(@, "should_stop_loop")]
    /\ UNCHANGED <<kind, parentOf, nextPid, ext_proc, down, up, ip, toClose,
                   joining, exiting, exc, nSent, nCheck>>
    /\ UNCHANGED <<msg, should_stop, recognized_signals, hmRet, pmRet, nSetup,
                   nTeardown, checkRet>>
    /\ UNCHANGED histVars
    /\ UNCHANGED <<tlVars, freeVars>>

\* proc_loop: m.loop_routine().  The base class does nothing; a subclass may fail.
ProcRoutine(p) ==
    /\ kind[p] = "proc_loop" /\ pc[p] = "routine"
    /\ callLog' = [callLog EXCEPT ![p] = Append(@, "loop_routine")]
    /\ \E raises \in BOOLEAN :
          IF raises
          THEN /\ pc' = [pc EXCEPT ![p] = "closing"]
               /\ EnterExit(p, Exc("Error", "loop_routine"))
          ELSE /\ pc' = [pc EXCEPT ![p] = "pace"]
               /\ UNCHANGED <<exc, exiting, toClose, registeredAtExit>>
    /\ UNCHANGED <<kind, parentOf, nextPid, ext_proc, down, up, ip, joining, nSent, nCheck>>
    /\ UNCHANGED <<msg, should_stop, recognized_signals, hmRet, pmRet, nSetup,
                   nTeardown, checkRet>>
    /\ UNCHANGED <<stopsSent, histRest>>
    /\ UNCHANGED <<tlVars, freeVars>>

\* proc_loop: sleep_fn(), the pace function create_process_fn passes
ProcPace(p) ==
    /\ kind[p] = "proc_loop" /\ pc[p] = "pace"
    /\ callLog' = [callLog EXCEPT ![p] = Append(@, "sleep_fn")]
    /\ pc' = [pc EXCEPT ![p] = "handle"]
    /\ UNCHANGED <<kind, parentOf, nextPid, ext_proc, down, up, ip, toClose,
                   joining, exiting, exc, nSent, nCheck>>
    /\ UNCHANGED <<msg, should_stop, recognized_signals, hmRet, pmRet, nSetup,
                   nTeardown, checkRet>>
    /\ UNCHANGED histVars
    /\ UNCHANGED <<tlVars, freeVars>>

\* proc_loop: m.teardown() after the loop, then the with-block ends
ProcTeardown(p) ==
    /\ kind[p] = "proc_loop" /\ pc[p] = "teardown"
    /\ nTeardown' = [nTeardown EXCEPT ![p] = @ + 1]
    /\ pc' = [pc EXCEPT ![p] = "closing"]
    /\ EnterExit(p, NoExc)
    /\ UNCHANGED <<kind, parentOf, nextPid, ext_proc, down, up, ip, joining, nSent, nCheck>>
    /\ UNCHANGED <<msg, should_stop, recognized_signals, hmRet, pmRet, callLog,
                   nSetup, checkRet>>
    /\ UNCHANGED <<stopsSent, histRest>>
    /\ UNCHANGED <<tlVars, freeVars>>

\* ------------------------------- MessengerProcess, operations called freely
\* A Messenger Process whose own code, inside `with m:`, calls the operations
\* of the class in any order, on its parent channel or on a child by name.
FreeKinds == {"messenger_main", "messenger"}
FreeNames == {"child"}
FreeVals == {STOP, create_message("HEARTBEAT", NoVal), create_message("STOP", NoVal)}
FreeSignals == {"HEARTBEAT", "STOP"}

\* the channels the code of p uses: the main process talks to its child by
\* name, a child to its parent
FreeTargets(p) == IF parentOf[p] = NoPid THEN FreeNames ELSE {NoName}

InFree(p) ==
    /\ kind[p] \in FreeKinds /\ pc[p] = "body"
    /\ ip[p] > Len(Script(kind[p]))
    /\ nCall < MaxFreeCalls

\* poll(proc_name) / recv(proc_name): the connection is self.link_to_parent,
\* which is None on the main process, or self.ext_proc[proc_name].link_to_child
link_error(p, target, op) ==
    IF target = NoName
    THEN IF parentOf[p] = NoPid THEN Exc("AttributeError", op) ELSE NoExc
    ELSE IF HasName(ext_proc[p], target) THEN NoExc ELSE Exc("KeyError", op)

\* the messages waiting on that connection
link(p, target) ==
    IF target = NoName THEN down[p] ELSE up[PidOf(ext_proc[p], target)]

\* what is left on that connection after a call
SetLink(p, target, chan) ==
    IF target = NoName
    THEN down' = [down EXCEPT ![p] = chan] /\ UNCHANGED up
    ELSE up' = [up EXCEPT ![PidOf(ext_proc[p], target)] = chan] /\ UNCHANGED down

\* an operation of p returns, or raises e out of the with-block
Returns(p, e) ==
    IF e = NoExc
    THEN UNCHANGED <<pc, exc, exiting, toClose, registeredAtExit>>
    ELSE /\ pc' = [pc EXCEPT ![p] = "closing"]
         /\ EnterExit(p, e)

Called(p, op, target, ret, m) ==
    /\ nCall' = nCall + 1
    /\ lastCall' = [pid |-> p, op |-> op, target |-> target, ret |-> ret, msg |-> m]

\* variant: the stop sentinel is kept back and the no-value result returned
GetMessagesSkipsStop(chan) ==
    IF poll(chan) /\ ~msg_is_stop_signal(recv(chan))
    THEN [msg |-> recv(chan), chan |-> Tail(chan)]
    ELSE [msg |-> None, chan |-> chan]

\* get_messages on a channel: the message returned (None: nothing waiting)
\* and what is left on the channel
get_messages(chan) ==
    IF poll(chan)
    THEN [msg |-> recv(chan), chan |-> Tail(chan)]
    ELSE [msg |-> None, chan |-> chan]

\* variant: STOP counts only when it comes from the parent
StopFromParentOnly(target, flag, r) ==
    IF target = NoName THEN r.should_stop ELSE flag

\* the stop flag after handle_messages(proc_name=target) with outcome r:
\* `self.should_stop = True` is reached whichever connection was read
stop_flag(target, flag, r) == r.should_stop

\* p calls handle_messages(proc_name=target)
FreeHandle(p) ==
    \E target \in FreeTargets(p) :
        /\ InFree(p)
        /\ LET e == link_error(p, target, "handle_messages") IN
           IF e # NoExc
           THEN /\ Returns(p, e)
                /\ Called(p, "handle_messages", target, "raised", None)
                /\ UNCHANGED <<down, up, should_stop, hmRet, pmRet, dispatched,
                               recvLog>>
           ELSE LET r == handle_messages(link(p, target), recognized_signals[p],
                                         should_stop[p])
                IN /\ SetLink(p, target, r.chan)
                   /\ should_stop' = [should_stop EXCEPT
                                         ![p] = stop_flag(target, @, r)]
                   /\ hmRet' = [hmRet EXCEPT ![p] = r.ret]
                   /\ pmRet' = [pmRet EXCEPT ![p] = r.pm]
                   /\ dispatched' = [dispatched EXCEPT
                                        ![p] = IF r.pm.handler # "none"
                                               THEN Append(@, recv(link(p, target)))
                                               ELSE @]
                   /\ recvLog' = [recvLog EXCEPT
                                     ![p] = IF r.called
                                            THEN Append(@, recv(link(p, target)))
                                            ELSE @]
                   /\ Returns(p, IF r.ret = "raised"
                                 THEN Exc(r.pm.exc, "process_message") ELSE NoExc)
                   /\ Called(p, "handle_messages", target, r.ret,
                             IF poll(link(p, target)) THEN recv(link(p, target))
                             ELSE None)
        /\ UNCHANGED <<kind, parentOf, nextPid, ext_proc, ip, joining, nSent, nCheck>>
        /\ UNCHANGED <<msg, recognized_signals, callLog, nSetup, nTeardown, checkRet>>
        /\ UNCHANGED <<stopsSent, joinTimedOut, sentLog, replyLog, lastSend>>
        /\ UNCHANGED tlVars

\* p calls get_messages(proc_name=target)
FreeGet(p) ==
    \E target \in FreeTargets(p) :
        /\ InFree(p)
        /\ LET e == link_error(p, target, "get_messages") IN
           IF e # NoExc
           THEN /\ Returns(p, e)
                /\ Called(p, "get_messages", target, "raised", None)
                /\ UNCHANGED <<down, up>>
           ELSE LET r == get_messages(link(p, target)) IN
                /\ SetLink(p, target, r.chan)
                /\ Returns(p, NoExc)
                /\ Called(p, "get_messages", target,
                          IF r.msg = None THEN "None" ELSE "msg", r.msg)
        /\ UNCHANGED <<kind, parentOf, nextPid, ext_proc, ip, joining, nSent, nCheck>>
        /\ UNCHANGED msgVars
        /\ UNCHANGED <<stopsSent, histRest>>
        /\ UNCHANGED tlVars

\* p calls process_message(m) itself, as test_map_signal_to_function does
FreeProcess(p) ==
    \E m \in {create_message("HEARTBEAT", NoVal)} :
        /\ InFree(p)
        /\ LET r == process_message(recognized_signals[p], m) IN
           /\ pmRet' = [pmRet EXCEPT ![p] = r]
           /\ dispatched' = [dispatched EXCEPT
                                ![p] = IF r.handler # "none" THEN Append(@, m) ELSE @]
           /\ Returns(p, IF r.exc = "none" THEN NoExc
                         ELSE Exc(r.exc, "process_message"))
           /\ Called(p, "process_message", NoName,
                     IF r.exc = "none" THEN r.ret ELSE "raised", m)
        /\ UNCHANGED <<kind, parentOf, nextPid, ext_proc, down, up, ip, joining,
                       nSent, nCheck>>
        /\ UNCHANGED <<msg, should_stop, recognized_signals, hmRet, callLog, nSetup,
                       nTeardown, checkRet>>
        /\ UNCHANGED <<stopsSent, joinTimedOut, sentLog, recvLog, replyLog, lastSend>>
        /\ UNCHANGED tlVars

\* p calls add_signal(signal, fn), fn being a function fn(val, **kwargs)
FreeAddSignal(p) ==
    \E signal \in FreeSignals :
        /\ InFree(p)
        /\ recognized_signals' =
              [recognized_signals EXCEPT ![p] = add_signal(@, signal, "fn")]
        /\ Called(p, "add_signal", signal, "None", None)
        /\ UNCHANGED mgrVars
        /\ UNCHANGED <<msg, should_stop, hmRet, pmRet, callLog, nSetup, nTeardown,
                       checkRet>>
        /\ UNCHANGED histVars
        /\ UNCHANGED tlVars

\* p calls send(proc_name=target, msg=m)
FreeSend(p) ==
    \E target \in FreeTargets(p), m \in FreeVals :
        /\ InFree(p)
        /\ LET e == send_error(p, target, m) IN
           /\ Returns(p, e)
           /\ Called(p, "send", target, IF e = NoExc THEN "None" ELSE "raised", m)
           /\ IF e # NoExc
              THEN UNCHANGED <<down, up, stopsSent, sentLog>>
              ELSE IF target = NoName
              THEN /\ up' = [up EXCEPT ![p] = Append(@, m)]
                   /\ UNCHANGED <<down, stopsSent, sentLog>>
              ELSE LET c == PidOf(ext_proc[p], target) IN
                   /\ down' = [down EXCEPT ![c] = Append(@, m)]
                   /\ stopsSent' = [stopsSent EXCEPT
                                       ![c] = IF m = STOP THEN @ + 1 ELSE @]
                   /\ sentLog' = [sentLog EXCEPT
                                     ![c] = IF msg_is_stop_signal(m) THEN @
                                            ELSE Append(@, m)]
                   /\ UNCHANGED up
        /\ UNCHANGED <<kind, parentOf, nextPid, ext_proc, ip, joining, nSent, nCheck>>
        /\ UNCHANGED msgVars
        /\ UNCHANGED <<joinTimedOut, recvLog, replyLog, dispatched, lastSend>>
        /\ UNCHANGED tlVars

\* p calls add_process(name, f) for another Messenger Process
FreeAdd(p) ==
    \E name \in FreeNames :
        /\ InFree(p)
        /\ parentOf[p] = NoPid
        /\ nextPid <= MaxKids
        /\ add_process(p, name, "messenger", "body")
        /\ Called(p, "add_process", name,
                  IF HasName(ext_proc[p], name) THEN "raised" ELSE "None", None)
        /\ UNCHANGED <<ip, msgVars, histRest>>
        /\ UNCHANGED tlVars

\* p calls close_process(name)
FreeClose(p) ==
    \E name \in FreeNames :
        /\ InFree(p)
        /\ close_process(p, name, toClose[p])
        /\ Called(p, "close_process", name,
                  IF HasName(ext_proc[p], name) THEN "None" ELSE "raised", None)
        /\ UNCHANGED <<msgVars, histRest>>
        /\ UNCHANGED tlVars

\* the with-block of p ends
FreeEnd(p) ==
    /\ kind[p] \in FreeKinds /\ pc[p] = "body"
    /\ ip[p] > Len(Script(kind[p]))
    /\ pc' = [pc EXCEPT ![p] = "closing"]
    /\ EnterExit(p, NoExc)
    /\ UNCHANGED <<kind, parentOf, nextPid, ext_proc, down, up, ip, joining,
                   nSent, nCheck, stopsSent>>
    /\ UNCHANGED <<msgVars, histRest>>
    /\ UNCHANGED <<tlVars, freeVars>>

\* ----------------------------------------------------------------- Timed Loop
\* Time is counted in ticks of 5 ms.  A call through the loop is one step:
\* the counter is incremented, the origin taken if absent, the body runs for
\* its duration, and time.sleep suspends the caller for the time requested.
\* TimedLoop(dt=.02), the loop of the tests
Dt020 == 4
\* change_dt(.025)
Dt025 == 5
\* time.sleep(.03), the body of funcB
Body030 == 6
\* time the caller lets pass between two calls
Gap015 == 3

DtValues == {Dt020, Dt025}
BodyTimes == {0, Body030}
GapTimes == {0, Gap015}
\* loop_fn of TestTimedLoopMutable only passes
SyncBodyTimes == {0}

\* init_time = None
NoTime == 0 - 1

Max(a, b) == IF a >= b THEN a ELSE b

\* TimedLoop.__init__
TimedLoop(dt) ==
    [class |-> "TimedLoop", i |-> 0, dt |-> dt, init_time |-> NoTime,
     iterations_per_update |-> 0]

\* SynchronizedTimedLoop.__init__
SynchronizedTimedLoop(dt, iterations_per_update) ==
    [class |-> "SynchronizedTimedLoop", i |-> 0, dt |-> dt, init_time |-> NoTime,
     iterations_per_update |-> iterations_per_update]

\* variant: the sleep is the period less the body time of this call alone
WrapperRelative(tl, t, body) ==
    [tl |-> [tl EXCEPT !.i = tl.i + 1,
                       !.init_time = IF tl.init_time = NoTime THEN t ELSE @],
     des_end_time |-> t + tl.dt,
     current_time |-> t + body,
     sleep |-> Max(tl.dt - body, 0),
     ret |-> t + body + Max(tl.dt - body, 0)]

\* variant: the sleep is the difference to the target, not floored at 0
WrapperSleepsDifference(tl, t, body) ==
    LET i == tl.i + 1
        init_time == IF tl.init_time = NoTime THEN t ELSE tl.init_time
        des_end_time == i * tl.dt + init_time
    IN [tl |-> [tl EXCEPT !.i = i, !.init_time = init_time],
        des_end_time |-> des_end_time,
        current_time |-> t + body,
        sleep |-> des_end_time - (t + body),
        ret |-> des_end_time]

\* TimedLoop.__call__.wrapper entered at time t around a body that takes
\* `body`: the loop afterwards, the target, the time read after the body,
\* the sleep requested and the time the call returns
wrapper(tl, t, body) ==
    LET i == tl.i + 1
        init_time == IF tl.init_time = NoTime THEN t ELSE tl.init_time
        des_end_time == i * tl.dt + init_time
        current_time == t + body
        sleep == Max(des_end_time - current_time, 0)
    IN [tl |-> [tl EXCEPT !.i = i, !.init_time = init_time],
        des_end_time |-> des_end_time,
        current_time |-> current_time,
        sleep |-> sleep,
        ret |-> current_time + sleep]

\* variant: the origin and the counter survive
ChangeDtKeepsSchedule(tl, new_dt) == [tl EXCEPT !.dt = new_dt]

\* change_dt(new_dt)
change_dt(tl, new_dt) == [tl EXCEPT !.i = 0, !.dt = new_dt, !.init_time = NoTime]

\* variant: the counter survives
ResetKeepsCounter(tl) == [tl EXCEPT !.init_time = NoTime]

\* reset_start_time()
reset_start_time(tl) == [tl EXCEPT !.i = 0, !.init_time = NoTime]

\* variant: the period is installed, the origin in use is kept
SynchronizeKeepsOrigin(tl, desired_dt) == [tl EXCEPT !.i = 0, !.dt = desired_dt]

\* synchronize(), desired_dt being what timestep_lookup_fn() returned
synchronize(tl, desired_dt) == change_dt(tl, desired_dt)

\* variant: the resynchronisation waits for the counter to pass the interval
SyncDueLate(tl) == tl.i > tl.iterations_per_update

\* SynchronizedTimedLoop.__call__.wrapper: `if self.i >= self.iterations_per_update`
sync_due(tl) == tl.i >= tl.iterations_per_update

\* the record of a call that entered the wrapper at time t
CallRecord(tl, t, body, w, lookups, desired_dt) ==
    [i |-> w.tl.i, dt |-> tl.dt, init_time |-> w.tl.init_time,
     fresh |-> (tl.init_time = NoTime),
     start |-> t, body |-> body, des_end_time |-> w.des_end_time,
     sleep |-> w.sleep, ret |-> w.ret,
     lookups |-> lookups, desired_dt |-> desired_dt]

\* the record of a change_dt / reset_start_time / synchronize call
OpRecord(name, arg) == [name |-> name, arg |-> arg, at |-> Len(calls)]

\* the functions of the tests one loop object decorates; loop_func stands
\* for a function whose duration varies from call to call
SharedFns == {"funcA", "funcB", "funcC"}

\* time the body of a wrapped function takes
BodyOf(fn) ==
    CASE fn = "funcB" -> {Body030}
      [] fn \in {"funcA", "funcC", "empty_loop", "sleep_fn"} -> {0}
      [] OTHER -> BodyTimes

\* variant: each wrapped function starts a schedule of its own when the
\* call before it went through another function
WrappedOwnSchedule(fn, tl, t, body) ==
    IF fnLog # <<>> /\ fnLog[Len(fnLog)] # fn
    THEN wrapper(reset_start_time(tl), t, body)
    ELSE wrapper(tl, t, body)

\* TL(loop_func): the wrapper __call__ returns for loop_func fn is a closure
\* over the loop object; counter, period and origin are read and written on
\* that object, loop_func is only called
wrapped(fn, tl, t, body) == wrapper(tl, t, body)

\* a call of one of the functions F wrapped by a TimedLoop, made `gap` after
\* the previous call returned
PacedCall(F) ==
    \E fn \in F, gap \in GapTimes :
      \E body \in BodyOf(fn) :
        /\ TL.class = "TimedLoop"
        /\ Len(calls) < MaxCalls
        /\ LET w == wrapped(fn, TL, now + gap, body) IN
           /\ TL' = w.tl
           /\ now' = w.ret
           /\ calls' = Append(calls, CallRecord(TL, now + gap, body, w, 0, 0))
        /\ fnLog' = Append(fnLog, fn)
        /\ UNCHANGED <<ops, factory>>
        /\ UNCHANGED <<mgrVars, msgVars, histVars, freeVars>>

\* a call of a function wrapped by a SynchronizedTimedLoop; the lookup
\* function returns what an external source gives it
SyncPacedCall ==
    \E gap \in GapTimes, body \in SyncBodyTimes, desired_dt \in DtValues :
        /\ TL.class = "SynchronizedTimedLoop"
        /\ Len(calls) < MaxCalls
        /\ LET w == wrapper(TL, now + gap, body) IN
           /\ TL' = IF sync_due(w.tl) THEN synchronize(w.tl, desired_dt) ELSE w.tl
           /\ now' = w.ret
           /\ calls' = Append(calls,
                          IF sync_due(w.tl)
                          THEN CallRecord(TL, now + gap, body, w, 1, desired_dt)
                          ELSE CallRecord(TL, now + gap, body, w, 0, 0))
        /\ fnLog' = Append(fnLog, "loop_fn")
        /\ UNCHANGED <<ops, factory>>
        /\ UNCHANGED <<mgrVars, msgVars, histVars, freeVars>>

\* TL.change_dt(new_dt) between two calls
ChangeDt ==
    \E new_dt \in DtValues :
        /\ TL.class # "none"
        /\ Len(ops) < MaxOps
        /\ TL' = change_dt(TL, new_dt)
        /\ ops' = Append(ops, OpRecord("change_dt", new_dt))
        /\ UNCHANGED <<now, calls, fnLog, factory>>
        /\ UNCHANGED <<mgrVars, msgVars, histVars, freeVars>>

\* TL.reset_start_time() between two calls
ResetStartTime ==
    /\ TL.class # "none"
    /\ Len(ops) < MaxOps
    /\ TL' = reset_start_time(TL)
    /\ ops' = Append(ops, OpRecord("reset_start_time", TL.dt))
    /\ UNCHANGED <<now, calls, fnLog, factory>>
    /\ UNCHANGED <<mgrVars, msgVars, histVars, freeVars>>

\* TL.synchronize() called directly, as test_change_dt does before its loop
Synchronize ==
    \E desired_dt \in DtValues :
        /\ TL.class = "SynchronizedTimedLoop"
        /\ Len(ops) < MaxOps
        /\ TL' = synchronize(TL, desired_dt)
        /\ ops' = Append(ops, OpRecord("synchronize", desired_dt))
        /\ UNCHANGED <<now, calls, fnLog, factory>>
        /\ UNCHANGED <<mgrVars, msgVars, histVars, freeVars>>

\* --------------------------------------------------- Timed Loop factory
\* no loop object has been constructed
NoLoop ==
    [class |-> "none", i |-> 0, dt |-> 0, init_time |-> NoTime,
     iterations_per_update |-> 0]

\* player arguments: the members of PLAYER the code names, None (the default
\* of get_timed_loop) and any other value
Players == {"DXL", "BULLET", "VREP", "None", "OTHER"}
RecognizedPlayers == {"DXL", "BULLET", "VREP"}

\* truth value of an operand of `or`: None is false, an Enum member is true
Truthy(v) == v # "None"

\* the global names of module timed_loop; the import of `mem` is commented out
ModuleNames == {"time", "logging", "ipc", "log"}

\* get_timestep_lookup_function_by_player: the if / elif / else chain
\* chooses the memory location, which is then read from `mem`
get_timestep_lookup_function_by_player(player) ==
    LET branch == IF player = "DXL" \/ Truthy("BULLET") THEN "DATA_CLOCK"
                  ELSE IF player = "VREP" THEN "DATA_VREP"
                  ELSE "ValueError"
    IN IF branch = "ValueError"
       THEN [exc |-> "ValueError", memoryloc |-> "none"]
       ELSE IF "mem" \notin ModuleNames
       THEN [exc |-> "NameError", memoryloc |-> "none"]
       ELSE [exc |-> "none", memoryloc |-> branch]

\* get_timed_loop(control_loop_period, synchronize, player): the loop object
\* made, or the error of get_timestep_lookup_function_by_player, which
\* get_synchronized_timed_loop calls first
get_timed_loop(control_loop_period, do_synchronize, player) ==
    IF do_synchronize
    THEN LET l == get_timestep_lookup_function_by_player(player) IN
         [exc |-> l.exc, memoryloc |-> l.memoryloc,
          tl |-> IF l.exc = "none"
                 THEN SynchronizedTimedLoop(control_loop_period, 100)
                 ELSE NoLoop]
    ELSE [exc |-> "none", memoryloc |-> "none", tl |-> TimedLoop(control_loop_period)]

NoFactory ==
    [called |-> FALSE, synchronize |-> FALSE, player |-> "None", exc |-> "none",
     memoryloc |-> "none"]

\* the main process calls get_timed_loop, as create_process_fn does
GetTimedLoop ==
    \E dt \in DtValues, sync \in BOOLEAN, player \in Players :
        /\ ~factory.called
        /\ LET r == get_timed_loop(dt, sync, player) IN
           /\ factory' = [called |-> TRUE, synchronize |-> sync, player |-> player,
                          exc |-> r.exc, memoryloc |-> r.memoryloc]
           /\ TL' = r.tl
        /\ UNCHANGED <<now, calls, ops, fnLog>>
        /\ UNCHANGED <<mgrVars, msgVars, histVars, freeVars>>

\* the loop object tl has just been constructed, at time 0
InitTimedLoop(tl) ==
    /\ TL = tl
    /\ now = 0
    /\ calls = <<>>
    /\ ops = <<>>
    /\ fnLog = <<>>
    /\ factory = NoFactory

\* the main process uses no Timed Loop
NoTimedLoop == InitTimedLoop(TimedLoop(Dt020))


\* --------------------------------------------------------------- behaviours
\* the state after `ProcessManager(name)` in the main process running rootKind
InitWith(rootKind) ==
    /\ pc = [p \in Pids |-> IF p = Root THEN "body" ELSE "unborn"]
    /\ kind = [p \in Pids |-> IF p = Root THEN rootKind ELSE "none"]
    /\ parentOf = [p \in Pids |-> NoPid]
    /\ nextPid = 1
    /\ ext_proc = [p \in Pids |-> <<>>]
    /\ down = [p \in Pids |-> <<>>]
    /\ up = [p \in Pids |-> <<>>]
    /\ ip = [p \in Pids |-> 1]
    /\ toClose = [p \in Pids |-> <<>>]
    /\ joining = [p \in Pids |-> NoName]
    /\ exiting = [p \in Pids |-> FALSE]
    /\ exc = [p \in Pids |-> NoExc]
    /\ nSent = 0
    /\ nCheck = 0
    /\ msg = [p \in Pids |-> None]
    /\ should_stop = [p \in Pids |-> FALSE]
    /\ recognized_signals = [p \in Pids |-> [s \in Signals |->
                                IF s = "HEARTBEAT" THEN "heartbeat" ELSE "none"]]
    /\ hmRet = [p \in Pids |-> "-"]
    /\ pmRet = [p \in Pids |-> NoCall]
    /\ callLog = [p \in Pids |-> <<>>]
    /\ nSetup = [p \in Pids |-> 0]
    /\ nTeardown = [p \in Pids |-> 0]
    /\ checkRet = [p \in Pids |-> "-"]
    /\ stopsSent = [p \in Pids |-> 0]
    /\ registeredAtExit = [p \in Pids |-> {}]
    /\ joinTimedOut = FALSE
    /\ sentLog = [p \in Pids |-> <<>>]
    /\ recvLog = [p \in Pids |-> <<>>]
    /\ replyLog = [p \in Pids |-> <<>>]
    /\ dispatched = [p \in Pids |-> <<>>]
    /\ lastSend = [target |-> NoName, msg |-> None]
    /\ nCall = 0
    /\ lastCall = NoCallYet

\* Process Manager under a main process that adds and closes children freely
PMFns == {"my_proc", "worker_proc", "long_proc"}

InitPM == InitWith("driver") /\ NoTimedLoop

NextPM ==
    \/ DriverAdd(Names, PMFns)
    \/ DriverClose(Names)
    \/ DriverEnd
    \/ \E p \in Pids : JoinReturn(p)
    \/ \E p \in Pids : CloseNext(p)
    \/ \E p \in Pids : StopLoop(p)
    \/ \E p \in Pids : LongProc(p)

SpecPM == InitPM /\ [][NextPM]_vars

\* test_single_level: the main process starts my_proc1 and my_proc2, may
\* close either by name, and leaves its with-block.  The main process is
\* scheduled while it closes a child; no child is required to take a step.
SingleNames == {"my_proc1", "my_proc2"}

InitSingle == InitWith("test_single_level") /\ NoTimedLoop

NextSingle ==
    \/ \E p \in Pids : ScriptAdd(p)
    \/ DriverClose(SingleNames)
    \/ DriverEnd
    \/ \E p \in Pids : JoinReturn(p)
    \/ \E p \in Pids : CloseNext(p)
    \/ \E p \in Pids : StopLoop(p)

SpecSingle ==
    /\ InitSingle
    /\ [][NextSingle]_vars
    /\ WF_vars(JoinReturn(Root)) /\ WF_vars(CloseNext(Root))

\* test_three_level: main -> boss_proc -> 2 mid_level_proc -> 2 worker_proc each
InitTree == InitWith("test_three_level") /\ NoTimedLoop

NextTree ==
    \/ \E p \in Pids : ScriptAdd(p)
    \/ DriverEnd
    \/ \E p \in Pids : JoinReturn(p)
    \/ \E p \in Pids : CloseNext(p)
    \/ \E p \in Pids : StopLoop(p)

SpecTree == InitTree /\ [][NextTree]_vars

\* the processes of the tree below the main process
TreePids == 1..(1 + NumMid + NumMid * NumWorker)

\* the same, every process of the tree being scheduled again and again; the
\* main process ends its with-block when its sleep is over
SpecTreeFair ==
    /\ InitTree
    /\ [][NextTree]_vars
    /\ WF_vars(DriverEnd)
    /\ \A p \in {Root} \cup TreePids :
          /\ WF_vars(ScriptAdd(p)) /\ WF_vars(StopLoop(p))
          /\ WF_vars(CloseNext(p)) /\ WF_vars(JoinReturn(p))

\* test_message_queue: the main process starts msg_proc1 running msg_proc,
\* sends it values and reads its replies
EchoVals == {Str("hi it's your boss"), HEARTBEAT, create_message("A", "5")}
EchoNames == {"msg_proc1"}

InitEcho == InitWith("test_message_queue") /\ NoTimedLoop

NextEcho ==
    \/ \E p \in Pids : ScriptAdd(p)
    \/ DriverSend(EchoNames, EchoVals)
    \/ DriverRecv(EchoNames)
    \/ DriverClose(EchoNames)
    \/ DriverEnd
    \/ \E p \in Pids : JoinReturn(p)
    \/ \E p \in Pids : CloseNext(p)
    \/ \E p \in Pids : EchoCheck(p)
    \/ \E p \in Pids : EchoBody(p)

\* every started process keeps being scheduled
SpecEcho ==
    /\ InitEcho
    /\ [][NextEcho]_vars
    /\ \A p \in Pids : WF_vars(EchoCheck(p)) /\ WF_vars(EchoBody(p))

\* test_create_process_fn: the main process starts a Messenger Process child
\* running proc_loop and sends it Messages
MPVals == {create_message("HEARTBEAT", NoVal), create_message("A", "5"),
           create_message("A", NoVal), create_message("B", NoVal)}
MPNames == {"child"}

InitMP == InitWith("test_create_process_fn") /\ NoTimedLoop

NextMP ==
    \/ \E p \in Pids : ScriptAdd(p)
    \/ DriverSend(MPNames, MPVals)
    \/ DriverEnd
    \/ \E p \in Pids : JoinReturn(p)
    \/ \E p \in Pids : CloseNext(p)
    \/ \E p \in Pids : ProcSetup(p)
    \/ \E p \in Pids : ProcHandle(p)
    \/ \E p \in Pids : ProcCheck(p)
    \/ \E p \in Pids : ProcRoutine(p)
    \/ \E p \in Pids : ProcPace(p)
    \/ \E p \in Pids : ProcTeardown(p)

SpecMP == InitMP /\ [][NextMP]_vars

\* the first process add_process starts
FirstChild == Root + 1

\* the same, the child being scheduled again and again: the steps of its
\* proc_loop and of its scope exit are taken when they can be
SpecMPFair ==
    /\ InitMP
    /\ [][NextMP]_vars
    /\ \A p \in {FirstChild} :
          /\ WF_vars(ProcSetup(p)) /\ WF_vars(ProcHandle(p))
          /\ WF_vars(ProcCheck(p)) /\ WF_vars(ProcRoutine(p))
          /\ WF_vars(ProcPace(p)) /\ WF_vars(ProcTeardown(p))
          /\ WF_vars(CloseNext(p)) /\ WF_vars(JoinReturn(p))

\* a Messenger Process child that owns sub-processes: its setup starts
\* worker_proc children before the loop runs
OwnerVals == {create_message("HEARTBEAT", NoVal), create_message("B", NoVal)}

InitOwner == InitWith("test_create_process_fn") /\ NoTimedLoop

NextOwner ==
    \/ \E p \in Pids : ScriptAdd(p)
    \/ DriverSend(MPNames, OwnerVals)
    \/ DriverEnd
    \/ \E p \in Pids : JoinReturn(p)
    \/ \E p \in Pids : CloseNext(p)
    \/ \E p \in Pids : StopLoop(p)
    \/ \E p \in Pids : ProcSetupAdd(p)
    \/ \E p \in Pids : ProcSetup(p)
    \/ \E p \in Pids : ProcHandle(p)
    \/ \E p \in Pids : ProcCheck(p)
    \/ \E p \in Pids : ProcRoutine(p)
    \/ \E p \in Pids : ProcPace(p)
    \/ \E p \in Pids : ProcTeardown(p)

SpecOwner == InitOwner /\ [][NextOwner]_vars

\* a Messenger Process main process with two Messenger Process children, each
\* running proc_loop; the main process sends Messages to either of them
SiblingNames == {"child", "child2"}

InitSiblings == InitWith("two_children") /\ NoTimedLoop

NextSiblings ==
    \/ \E p \in Pids : ScriptAdd(p)
    \/ (nSent < MaxSiblingSend /\ DriverSend(SiblingNames, OwnerVals))
    \/ DriverEnd
    \/ \E p \in Pids : JoinReturn(p)
    \/ \E p \in Pids : CloseNext(p)
    \/ \E p \in Pids : ProcSetup(p)
    \/ \E p \in Pids : ProcHandle(p)
    \/ \E p \in Pids : ProcCheck(p)
    \/ \E p \in Pids : ProcRoutine(p)
    \/ \E p \in Pids : ProcPace(p)
    \/ \E p \in Pids : ProcTeardown(p)

SpecSiblings == InitSiblings /\ [][NextSiblings]_vars

\* test_process_should_continue: the main process starts child_proc running
\* check_msg_proc, calls _check_exit_condition on itself and sends values
CheckVals == {Str("continue"), STOP, create_message("STOP", NoVal)}
CheckNames == {"child_proc"}

InitCheck == InitWith("test_process_should_continue") /\ NoTimedLoop

NextCheck ==
    \/ \E p \in Pids : ScriptAdd(p)
    \/ DriverSend(CheckNames, CheckVals)
    \/ DriverCheckExit
    \/ DriverClose(CheckNames)
    \/ DriverEnd
    \/ \E p \in Pids : JoinReturn(p)
    \/ \E p \in Pids : CloseNext(p)
    \/ \E p \in Pids : CheckMsgLoop(p)

SpecCheck == InitCheck /\ [][NextCheck]_vars

\* a Messenger Process main process and its Messenger Process child, the code
\* of both calling the operations of the class in any order
InitFree == InitWith("messenger_main") /\ NoTimedLoop

NextFree ==
    \/ \E p \in Pids : ScriptAdd(p)
    \/ \E p \in Pids : FreeHandle(p)
    \/ \E p \in Pids : FreeGet(p)
    \/ \E p \in Pids : FreeProcess(p)
    \/ \E p \in Pids : FreeAddSignal(p)
    \/ \E p \in Pids : FreeSend(p)
    \/ \E p \in Pids : FreeAdd(p)
    \/ \E p \in Pids : FreeClose(p)
    \/ \E p \in Pids : FreeEnd(p)
    \/ \E p \in Pids : JoinReturn(p)
    \/ \E p \in Pids : CloseNext(p)

SpecFree == InitFree /\ [][NextFree]_vars

\* the Timed Loop tests: a TimedLoop of either period, called with any
\* sequence of body times and gaps, its period changed or its start reset
\* between calls
InitTL ==
    /\ InitWith("timed_loop_tests")
    /\ \E dt \in DtValues : InitTimedLoop(TimedLoop(dt))

NextTL ==
    \/ PacedCall({"loop_func"})
    \/ ChangeDt
    \/ ResetStartTime

SpecTL == InitTL /\ [][NextTL]_vars

\* resync intervals of the SynchronizedTimedLoop
Intervals == {1, 2}

\* TestTimedLoopMutable: a SynchronizedTimedLoop of either period and interval
InitSTL ==
    /\ InitWith("timed_loop_tests")
    /\ \E dt \in DtValues, n \in Intervals :
          InitTimedLoop(SynchronizedTimedLoop(dt, n))

NextSTL ==
    \/ SyncPacedCall
    \/ ChangeDt
    \/ ResetStartTime
    \/ Synchronize

SpecSTL == InitSTL /\ [][NextSTL]_vars

\* a loop object of either class, of either period, with any sequence of
\* paced calls and of change_dt, reset_start_time and synchronize between them
InitLoops ==
    /\ InitWith("timed_loop_tests")
    /\ \/ \E dt \in DtValues : InitTimedLoop(TimedLoop(dt))
       \/ \E dt \in DtValues, n \in Intervals :
             InitTimedLoop(SynchronizedTimedLoop(dt, n))

NextLoops ==
    \/ PacedCall({"loop_func"})
    \/ SyncPacedCall
    \/ ChangeDt
    \/ ResetStartTime
    \/ Synchronize

SpecLoops == InitLoops /\ [][NextLoops]_vars

\* get_timed_loop called once, and the pacing function it returned called
\* in a loop
InitFactory == InitWith("timed_loop_tests") /\ InitTimedLoop(NoLoop)

NextFactory ==
    \/ GetTimedLoop
    \/ PacedCall({"sleep_fn"})
    \/ ChangeDt
    \/ ResetStartTime

SpecFactory == InitFactory /\ [][NextFactory]_vars

\* test_catch_up: funcA, funcB and funcC, all decorated by the loop object
\* TL, called in any order
InitShared ==
    /\ InitWith("timed_loop_tests")
    /\ InitTimedLoop(TimedLoop(Dt020))

NextShared ==
    \/ PacedCall(SharedFns)
    \/ ChangeDt
    \/ ResetStartTime

SpecShared == InitShared /\ [][NextShared]_vars

\* ------------------------------------------------------------- properties
IsPrefix(s, t) == Len(s) <= Len(t) /\ s = SubSeq(t, 1, Len(s))

\* C1: whenever a manager's scope has been left, normally or by an exception,
\* its child table is empty and every child that was registered when the
\* scope was left has been sent STOP exactly once.
C1_ScopeExitClosesAll ==
    \A p \in Pids :
        (exiting[p] /\ pc[p] = "done") =>
            /\ ext_proc[p] = <<>>
            /\ \A c \in registeredAtExit[p] : stopsSent[c] = 1

\* the scope of the main process was left by an exception with two children registered
C1_Witness ==
    /\ pc[Root] = "done"
    /\ exc[Root].type = "RuntimeError"
    /\ Cardinality(registeredAtExit[Root]) = 2

\* C2: an add_process call that fails on a name already in the table starts
\* no process and creates no channel: the started processes and the child
\* table are those of before the call.
C2_DuplicateAddStartsNothing ==
    [][(exc[Root] = NoExc /\ exc'[Root] = Exc("RuntimeError", "add_process")) =>
          /\ nextPid' = nextPid
          /\ ext_proc' = ext_proc
          /\ \A c \in Pids : pc[c] = "unborn" => pc'[c] = "unborn"]_vars

\* C3: close_process on a name in the table puts STOP on that child's channel
\* when it is called, and when it returns from the join the name is out of
\* the table, whether or not the child has exited.
C3_CloseProcessRemoves ==
    [][\A p \in Pids :
          /\ (pc[p] # "joining" /\ pc'[p] = "joining") =>
                /\ HasName(ext_proc[p], joining'[p])
                /\ LET c == PidOf(ext_proc[p], joining'[p]) IN
                      down'[c] = Append(down[c], STOP)
          /\ (pc[p] = "joining" /\ pc'[p] # "joining") =>
                ~HasName(ext_proc'[p], joining[p])]_vars

\* an explicit close_process has returned on a child that is still running
C3_Witness ==
    /\ pc[Root] = "body"
    /\ \E c \in Pids :
          /\ Alive(c) /\ parentOf[c] = Root
          /\ stopsSent[c] = 1
          /\ c \notin PidsOf(ext_proc[Root])

\* C4: close_process on a name that is not in the table does not raise.
C4_CloseAbsentDoesNotRaise ==
    \A p \in Pids : exc[p] # Exc("KeyError", "close_process")

\* C5 as stated: once the scope exit of the root manager of the 3-level tree
\* has returned, no process of the tree is running.
C5_NoProcessAfterRootExit ==
    pc[Root] = "done" => \A p \in Pids : ~Alive(p)

\* C5, amended: once the scope exit of the root manager of the 3-level tree
\* has returned, no process of the tree is running, provided no join of the
\* teardown returned by its timeout.
C5_NoProcessAfterRootExitUnlessTimeout ==
    (pc[Root] = "done" /\ ~joinTimedOut) => \A p \in Pids : ~Alive(p)

\* the whole tree was started and torn down without a join timing out
C5_Witness ==
    /\ pc[Root] = "done" /\ ~joinTimedOut
    /\ nextPid = 1 + 1 + NumMid + NumMid * NumWorker
    /\ \A p \in 1..(nextPid - 1) : pc[p] = "done"

EchoChildOk(c) ==
    /\ IsPrefix(recvLog[c], sentLog[c])
    /\ IsPrefix(replyLog[c], recvLog[c])
    /\ Len(recvLog[c]) - Len(replyLog[c]) = (IF pc[c] = "reply" THEN 1 ELSE 0)
    /\ \A i \in 1..Len(up[c]) : up[c][i] = Str("gday mate")
    /\ Len(recvLog[Root]) + Len(up[c]) = Len(replyLog[c])
    /\ pc[c] = "done" => replyLog[c] = sentLog[c]

\* C6: the echo child replies once per non-stop value it receives, in the
\* order the values were sent and never more often; the replies the manager
\* has found plus those waiting on the channel are the replies made; and
\* every value sent is eventually replied to.
C6_EchoRoundTrip ==
    /\ [](\A c \in Pids : kind[c] = "msg_proc" => EchoChildOk(c))
    /\ <>[](\A c \in Pids : kind[c] = "msg_proc" => replyLog[c] = sentLog[c])

\* the manager has found one reply for each of at least two distinct values
C6_Witness ==
    /\ Len(sentLog[1]) >= 2
    /\ sentLog[1][1] # sentLog[1][2]
    /\ replyLog[1] = sentLog[1]
    /\ Len(recvLog[Root]) = Len(sentLog[1])

C8_ProcessMessageDispatch ==
    [][\A p \in Pids :
          (kind[p] = "proc_loop" /\ recvLog'[p] # recvLog[p]) =>
             LET m == Head(down[p])
                 h == recognized_signals[p][m.type]
             IN IF h # "none"
                THEN /\ pmRet'[p].handler = h
                     /\ dispatched'[p] = Append(dispatched[p], m)
                     /\ pmRet'[p].ret = CallHandler(h, m).ret
                     /\ (h = "fn" /\ m.val # NoVal) => pmRet'[p].ret = m.val
                ELSE /\ pmRet'[p] = [handler |-> "none", ret |-> NoRet,
                                     exc |-> "AttributeError"]
                     /\ dispatched'[p] = dispatched[p]
                     /\ hmRet'[p] = "raised"
                     /\ exc'[p] = Exc("AttributeError", "process_message")
                     /\ pc'[p] \notin LoopPcs]_vars

\* a message was handled, and a later one with no handler ended the loop
C8_Witness ==
    /\ exc[1] = Exc("AttributeError", "process_message")
    /\ \E i \in 1..Len(dispatched[1]) : dispatched[1][i] = create_message("A", "5")

LoopOrder == <<"handle_messages", "should_stop_loop", "loop_routine", "sleep_fn">>

\* C9: proc_loop calls setup once, before anything else; in an iteration it
\* calls handle_messages, the stop check, loop_routine and the pace function,
\* each once and in that order; once the stop check has seen the flag set,
\* loop_routine and the pace function are not called again, and teardown is
\* called, after the loop.
C9_LoopOrder ==
    \A p \in Pids :
        kind[p] = "proc_loop" =>
            /\ IsPrefix(callLog[p], LoopOrder)
            /\ pc[p] = "setup" => (nSetup[p] = 0 /\ callLog[p] = <<>>)
            /\ pc[p] \in LoopPcs \ {"setup"} => nSetup[p] = 1
            /\ pc[p] = "handle" => callLog[p] \in {<<>>, LoopOrder}
            /\ pc[p] = "check" => callLog[p] = SubSeq(LoopOrder, 1, 1)
            /\ pc[p] = "routine" =>
                  (callLog[p] = SubSeq(LoopOrder, 1, 2) /\ ~should_stop[p])
            /\ pc[p] = "pace" =>
                  (callLog[p] = SubSeq(LoopOrder, 1, 3) /\ ~should_stop[p])
            /\ pc[p] = "teardown" =>
                  /\ should_stop[p] /\ nTeardown[p] = 0
                  /\ callLog[p] = SubSeq(LoopOrder, 1, 2)
            /\ should_stop[p] => Len(callLog[p]) <= 2
            /\ nTeardown[p] <= 1
            /\ nTeardown[p] = 1 => (should_stop[p] /\ pc[p] \notin LoopPcs)
            /\ (pc[p] = "done" /\ exc[p] = NoExc) => nTeardown[p] = 1

\* the loop ran a full iteration, dispatched a message, read STOP and ended
C9_Witness ==
    /\ pc[1] = "done" /\ exc[1] = NoExc
    /\ nTeardown[1] = 1
    /\ Len(dispatched[1]) >= 2

\* C10: when a run of proc_loop has ended, for whatever reason, setup has
\* been called exactly once and teardown exactly once.
C10_SetupAndTeardownOnce ==
    \A p \in Pids :
        (kind[p] = "proc_loop" /\ pc[p] = "done") =>
            (nSetup[p] = 1 /\ nTeardown[p] = 1)

\* how the run of proc_loop in process p ended
LoopEndedBy(p) ==
    IF exc[p] = NoExc THEN "stop flag" ELSE exc[p].op

\* C11: when the run loop of a Messenger Process has exited, by the stop flag
\* or by an error of setup, of a handler or of loop_routine, its scope exit
\* has run close_all_processes: every sub-process it had registered has been
\* sent STOP and its child table is empty.
C11_LoopExitClosesSubProcesses ==
    \A p \in Pids :
        (kind[p] = "proc_loop" /\ pc[p] = "done") =>
            /\ exiting[p]
            /\ toClose[p] = <<>>
            /\ ext_proc[p] = <<>>
            /\ \A c \in Pids :
                  (parentOf[c] = p /\ c \in registeredAtExit[p]) => stopsSent[c] >= 1
            /\ LoopEndedBy(p) \in {"stop flag", "setup", "add_process",
                                   "process_message", "loop_routine"}

\* a loop that owned two sub-processes was ended by an unrecognized message
C11_Witness ==
    /\ kind[1] = "proc_loop" /\ pc[1] = "done"
    /\ LoopEndedBy(1) = "process_message"
    /\ Cardinality(registeredAtExit[1]) = 2

\* the loop of process p is running
InLoop(p) == kind[p] = "proc_loop" /\ pc[p] \in LoopPcs \ {"teardown"}

\* process_message of c raises the unrecognized-signal error in this step
FailsUnrecognized(c) ==
    /\ kind[c] = "proc_loop"
    /\ exc[c] = NoExc
    /\ exc'[c] = Exc("AttributeError", "process_message")

\* C12: in the step in which process_message of one Messenger Process child
\* raises the unrecognized-signal error, that child's loop ends and nothing
\* of any other process changes: child table, stop flag, loop progress,
\* channels of its parent and of its siblings are as before.  A loop ends
\* only by its own process: normally only after that process read STOP
\* itself, otherwise by an error its own code raised.
C12_FailureIsolation ==
    /\ [][\A c \in Pids :
            FailsUnrecognized(c) =>
                /\ InLoop(c) /\ ~InLoop(c)'
                /\ \A q \in Pids \ {c} :
                      /\ pc'[q] = pc[q]
                      /\ ext_proc'[q] = ext_proc[q]
                      /\ should_stop'[q] = should_stop[q]
                      /\ callLog'[q] = callLog[q]
                      /\ exc'[q] = exc[q] /\ exiting'[q] = exiting[q]
                      /\ down'[q] = down[q] /\ up'[q] = up[q]]_vars
    /\ [][\A q \in Pids :
            (InLoop(q) /\ ~InLoop(q)') =>
                \/ /\ pc'[q] = "teardown" /\ exc'[q] = NoExc
                   /\ should_stop[q] /\ stopsSent[q] >= 1
                \/ /\ pc'[q] = "closing"
                   /\ exc'[q].op \in {"setup", "process_message", "loop_routine"}]_vars
    /\ [][\A q \in Pids :
            (kind[q] = "proc_loop" /\ ~should_stop[q] /\ should_stop'[q]) =>
                (pc[q] = "handle" /\ down[q] # <<>> /\ Head(down[q]) = STOP)]_vars

\* one child has died of an unrecognized message; its sibling has since
\* dispatched a message and is still in its loop, under a parent that still
\* holds both in its table
C12_Witness ==
    /\ pc[1] = "done" /\ exc[1] = Exc("AttributeError", "process_message")
    /\ InLoop(2) /\ Len(dispatched[2]) >= 1 /\ ~should_stop[2]
    /\ pc[Root] = "body" /\ Len(ext_proc[Root]) = 2

\* C13: a send call with no message fails with ValueError whatever the
\* target, a send call with no target fails with ValueError on a manager
\* without parent channel, no other send call fails with ValueError, and a
\* failing send call leaves every channel as it was.
C13_SendInvalidArgument ==
    [][nSent' = nSent + 1 =>
          LET invalid == \/ lastSend'.msg = None
                         \/ lastSend'.target = NoName /\ parentOf[Root] = NoPid
          IN /\ invalid = (exc'[Root] = Exc("ValueError", "send"))
             /\ exc'[Root] # NoExc => (down' = down /\ up' = up)]_vars

\* after a successful send to a registered child, a send to the same child
\* with no message has failed and the child's channel holds nothing of it
C13_Witness ==
    /\ exc[Root] = Exc("ValueError", "send")
    /\ lastSend.msg = None /\ lastSend.target = "child"
    /\ HasName(ext_proc[Root], "child") /\ Len(sentLog[1]) = 1
    /\ \A i \in 1..Len(down[1]) : down[1][i] # None

\* process p makes a _check_exit_condition call in this step that reads a
\* message or returns for the first time
CalledCheck(p) ==
    /\ kind[p] = "check_msg_proc"
    /\ checkRet'[p] # checkRet[p] \/ Len(down'[p]) < Len(down[p])

\* C14: a _check_exit_condition call on a manager with a parent channel
\* takes at most one message off that channel.  It returns True exactly when
\* that message is the STOP sentinel, and then leaves the slot alone; a
\* non-stop message is stored in the slot and the call returns False; with
\* nothing waiting it returns False and leaves the slot alone.  The loop on
\* process_should_continue goes on exactly when the call returned False.
C14_CheckExitCondition ==
    [][\A p \in Pids :
          CalledCheck(p) =>
             /\ IF down[p] = <<>>
                THEN /\ checkRet'[p] = "False"
                     /\ down'[p] = down[p] /\ msg'[p] = msg[p]
                ELSE /\ down'[p] = Tail(down[p])
                     /\ IF Head(down[p]) = STOP
                        THEN checkRet'[p] = "True" /\ msg'[p] = msg[p]
                        ELSE checkRet'[p] = "False" /\ msg'[p] = Head(down[p])
             /\ (pc'[p] = "loop") = (checkRet'[p] = "False")
             /\ (pc'[p] # "loop") = (checkRet'[p] = "True")]_vars

\* a Message of type STOP, which is not the sentinel, was stored and the loop
\* went on; the sentinel read later ended the loop and left the slot alone
C14_Witness ==
    /\ kind[1] = "check_msg_proc" /\ pc[1] = "done"
    /\ checkRet[1] = "True"
    /\ msg[1] = create_message("STOP", NoVal)

\* C15: every _check_exit_condition call on the root manager fails with
\* ValueError, whatever children it has and whatever waits on their
\* channels, and the call changes no child table, no channel and no slot.
C15_CheckExitOnRootFails ==
    [][nCheck' = nCheck + 1 =>
          /\ checkRet'[Root] = "ValueError"
          /\ exc'[Root] \in {exc[Root], Exc("ValueError", "_check_exit_condition")}
          /\ ext_proc' = ext_proc
          /\ down' = down /\ up' = up
          /\ msg' = msg]_vars

\* the call has failed twice on a root manager that has a running child with
\* a message waiting on its channel
C15_Witness ==
    /\ nCheck = 2 /\ checkRet[Root] = "ValueError"
    /\ pc[Root] = "body" /\ Len(ext_proc[Root]) = 1
    /\ pc[1] = "loop" /\ down[1] # <<>>

\* ------------------------------------------------- properties, Timed Loop
Duration(r) == r.ret - r.start

\* calls k, k+1, k+2 follow each other without a gap, the first of them on a
\* fresh origin and the others on the same origin
Successive3(k) ==
    /\ k + 2 <= Len(calls)
    /\ calls[k].fresh /\ ~calls[k + 1].fresh /\ ~calls[k + 2].fresh
    /\ calls[k + 1].start = calls[k].ret
    /\ calls[k + 2].start = calls[k + 1].ret

\* the bodies of calls k, k+1, k+2 take 0, b and 0
Bodies3(k, b) ==
    calls[k].body = 0 /\ calls[k + 1].body = b /\ calls[k + 2].body = 0

\* C16: a call on a fresh origin has counter 1 and its own entry time as
\* origin t0, the calls after it count on from there on the same origin, and
\* every call returns at max(t0 + i*dt, time its body finished).  Three
\* successive calls from a fresh origin whose bodies take 0, 1.5*dt and 0
\* last dt, 1.5*dt and 0.5*dt; with dt = 0.02 that is 0.02, 0.03, 0.01.
C16_CatchUp ==
    /\ \A k \in 1..Len(calls) :
          LET r == calls[k] IN
          /\ r.ret = Max(r.init_time + r.i * r.dt, r.start + r.body)
          /\ r.fresh => (r.i = 1 /\ r.init_time = r.start)
          /\ ~r.fresh =>
                /\ k > 1
                /\ r.i = calls[k - 1].i + 1
                /\ r.init_time = calls[k - 1].init_time
                /\ r.dt = calls[k - 1].dt
    /\ \A k \in 1..Len(calls) :
          (Successive3(k) /\ 2 * calls[k + 1].body = 3 * calls[k].dt
                          /\ Bodies3(k, calls[k + 1].body)) =>
             /\ Duration(calls[k]) = calls[k].dt
             /\ 2 * Duration(calls[k + 1]) = 3 * calls[k].dt
             /\ 2 * Duration(calls[k + 2]) = calls[k].dt
    /\ \A k \in 1..Len(calls) :
          (Successive3(k) /\ calls[k].dt = Dt020 /\ Bodies3(k, Body030)) =>
             /\ Duration(calls[k]) = Dt020
             /\ Duration(calls[k + 1]) = Body030
             /\ Duration(calls[k + 2]) = Dt020 - (Body030 - Dt020)

\* the 0 / 0.03 / 0 sequence has run on a loop of period 0.02 constructed
\* just before
C16_Witness ==
    /\ ops = <<>>
    /\ Len(calls) = 3 /\ Successive3(1)
    /\ calls[1].start = 0 /\ calls[1].dt = Dt020 /\ Bodies3(1, Body030)

\* C17: in every call the sleep requested is >= 0, the call returns when
\* that sleep is over, and it does not return before t0 + i*dt.
C17_NeverAhead ==
    \A k \in 1..Len(calls) :
        LET r == calls[k] IN
        /\ r.sleep >= 0
        /\ r.ret = r.start + r.body + r.sleep
        /\ r.ret >= r.init_time + r.i * r.dt
        /\ r.des_end_time = r.init_time + r.i * r.dt

\* a loop that fell behind its schedule by an overrun and by a gap, stayed
\* behind in the next call and slept nothing there
C17_Witness ==
    /\ Len(calls) >= 3
    /\ calls[2].body > calls[2].dt /\ calls[3].start > calls[2].ret
    /\ ~calls[3].fresh
    /\ calls[3].sleep = 0 /\ calls[3].ret > calls[3].des_end_time

RECURSIVE Schedule(_, _, _)
\* the records a loop in state tl makes of calls entered at the times and
\* with the bodies of calls k..hi
Schedule(tl, k, hi) ==
    IF k > hi THEN <<>>
    ELSE LET w == wrapper(tl, calls[k].start, calls[k].body) IN
         <<CallRecord(tl, calls[k].start, calls[k].body, w, 0, 0)>>
             \o Schedule(w.tl, k + 1, hi)

\* the last call made before the next change_dt / reset_start_time after ops[j]
LastCallOf(j) == IF j < Len(ops) THEN ops[j + 1].at ELSE Len(calls)

\* the calls made after ops[j] and before the next such call are those of a
\* loop constructed with period dt at the time of ops[j]
AsFreshLoop(j, dt) ==
    SubSeq(calls, ops[j].at + 1, LastCallOf(j))
        = Schedule(TimedLoop(dt), ops[j].at + 1, LastCallOf(j))

\* C18: change_dt(new_dt) sets the period to new_dt, the counter to 0 and the
\* origin to absent, whatever calls were made before; the calls that follow
\* are scheduled as on a loop constructed with period new_dt, and the
\* 0 / 0.03 / 0 body sequence after change_dt(0.025) lasts 0.025, 0.03, 0.02.
C18_ChangeDt ==
    /\ [][(ops' # ops /\ ops'[Len(ops')].name = "change_dt") =>
             TL' = [TL EXCEPT !.i = 0, !.dt = ops'[Len(ops')].arg,
                              !.init_time = NoTime]]_vars
    /\ [](\A j \in 1..Len(ops) :
             ops[j].name = "change_dt" =>
                /\ AsFreshLoop(j, ops[j].arg)
                /\ (/\ ops[j].arg = Dt025
                    /\ Successive3(ops[j].at + 1)
                    /\ ops[j].at + 3 <= LastCallOf(j)
                    /\ Bodies3(ops[j].at + 1, Body030)) =>
                      /\ Duration(calls[ops[j].at + 1]) = Dt025
                      /\ Duration(calls[ops[j].at + 2]) = Body030
                      /\ Duration(calls[ops[j].at + 3]) = 2 * Dt025 - Body030)

\* a loop of period 0.02 had fallen behind; after change_dt(0.025) the
\* 0 / 0.03 / 0 sequence has run
C18_Witness ==
    /\ Len(calls) = 4 /\ Len(ops) = 1
    /\ ops[1] = [name |-> "change_dt", arg |-> Dt025, at |-> 1]
    /\ calls[1].dt = Dt020 /\ calls[1].ret > calls[1].des_end_time
    /\ Successive3(2) /\ Bodies3(2, Body030)

\* C19: reset_start_time sets the counter to 0 and the origin to absent and
\* leaves dt as it is; the calls that follow are scheduled as on a loop
\* constructed with that period, whatever backlog the calls before had left.
C19_ResetStartTime ==
    /\ [][(ops' # ops /\ ops'[Len(ops')].name = "reset_start_time") =>
             /\ TL' = [TL EXCEPT !.i = 0, !.init_time = NoTime]
             /\ TL'.dt = TL.dt]_vars
    /\ [](\A j \in 1..Len(ops) :
             ops[j].name = "reset_start_time" => AsFreshLoop(j, ops[j].arg))

\* two calls had left the loop behind its schedule; the call after the reset
\* lasted one period, and the next one was on the new schedule
C19_Witness ==
    /\ Len(calls) = 4 /\ Len(ops) = 1
    /\ ops[1].name = "reset_start_time" /\ ops[1].at = 2
    /\ calls[2].ret > calls[2].des_end_time
    /\ calls[3].fresh /\ calls[3].i = 1 /\ Duration(calls[3]) = calls[3].dt
    /\ calls[3].dt = calls[2].dt
    /\ calls[4].init_time = calls[3].start /\ calls[4].i = 2

\* after r calls the schedule was reset: the loop was constructed (r = 0),
\* change_dt / reset_start_time / synchronize was called, or call r
\* resynchronised
ResetAfter(r) ==
    \/ r = 0
    \/ \E j \in 1..Len(ops) : ops[j].at = r
    \/ r >= 1 /\ calls[r].lookups >= 1

\* the number of calls made before the last reset that precedes call k
ResetBefore(k) ==
    CHOOSE r \in 0..(k - 1) :
        ResetAfter(r) /\ \A q \in (r + 1)..(k - 1) : ~ResetAfter(q)

\* the period was set from outside after r calls
DtSetAfter(r) ==
    \E j \in 1..Len(ops) :
        ops[j].at = r /\ ops[j].name \in {"change_dt", "synchronize"}

\* C20: a SynchronizedTimedLoop with resync interval N calls its lookup
\* function once at the end of every call that is the N-th since the last
\* reset of the schedule, and in no other call; the calls of the block that
\* follows use the period that lookup returned; and so on, block after block.
C20_ResyncEveryNth ==
    /\ \A k \in 1..Len(calls) :
          /\ k - ResetBefore(k) <= TL.iterations_per_update
          /\ calls[k].lookups =
                (IF k - ResetBefore(k) = TL.iterations_per_update THEN 1 ELSE 0)
          /\ (/\ ResetBefore(k) >= 1
              /\ calls[ResetBefore(k)].lookups = 1
              /\ ~DtSetAfter(ResetBefore(k))) =>
                 calls[k].dt = calls[ResetBefore(k)].desired_dt
    /\ (/\ calls # <<>>
        /\ calls[Len(calls)].lookups = 1
        /\ ~\E j \in 1..Len(ops) : ops[j].at = Len(calls)) =>
           TL = [TL EXCEPT !.i = 0, !.dt = calls[Len(calls)].desired_dt,
                           !.init_time = NoTime]

\* interval 2: the second and the fourth call looked the period up, each got
\* a value other than the period in use, and the third call ran on the first
\* of them
C20_Witness ==
    /\ TL.iterations_per_update = 2
    /\ Len(calls) = 4 /\ ops = <<>>
    /\ calls[1].lookups = 0 /\ calls[2].lookups = 1
    /\ calls[3].lookups = 0 /\ calls[4].lookups = 1
    /\ calls[2].desired_dt # calls[1].dt
    /\ calls[3].dt = calls[2].desired_dt
    /\ calls[4].desired_dt # calls[3].dt

\* ------------------------------------------ properties, Timed Loop factory
\* C21: get_timestep_lookup_function_by_player fails with ValueError for
\* every player that is not one of the three recognized ones, and returns a
\* lookup function only for a recognized one.
C21_UnrecognizedPlayerFails ==
    (factory.called /\ factory.synchronize) =>
        /\ factory.player \notin RecognizedPlayers => factory.exc = "ValueError"
        /\ factory.exc = "none" => factory.player \in RecognizedPlayers

\* ---------------------------- properties, Messenger Process called freely
\* operation op returns in this step
Returned(op) ==
    /\ nCall' = nCall + 1
    /\ lastCall'.op = op /\ lastCall'.ret # "raised"

\* the messages waiting on the connection of p to target after this step
LinkAfter(p, target) ==
    IF target = NoName THEN down'[p] ELSE up'[PidOf(ext_proc[p], target)]

\* C22: a get_messages call on a channel takes the head of the channel off and
\* returns it, the STOP sentinel like any other message, and with nothing
\* waiting returns None and leaves the channel as it is; in no case does it
\* change the stop flag, call a handler or touch another channel.
C22_GetMessagesPlainRead ==
    [][Returned("get_messages") =>
          LET p == lastCall'.pid
              t == lastCall'.target
          IN /\ should_stop' = should_stop
             /\ dispatched' = dispatched /\ pmRet' = pmRet /\ hmRet' = hmRet
             /\ exc' = exc /\ pc' = pc
             /\ IF link(p, t) = <<>>
                THEN /\ lastCall'.msg = None /\ lastCall'.ret = "None"
                     /\ down' = down /\ up' = up
                ELSE /\ lastCall'.msg = Head(link(p, t))
                     /\ LinkAfter(p, t) = Tail(link(p, t))
                     /\ Len(down'[p]) + Len(up'[p]) >= Len(down[p]) + Len(up[p]) - 1
                     /\ Head(link(p, t)) = STOP =>
                           (lastCall'.msg = STOP /\ should_stop'[p] = should_stop[p])]_vars

\* get_messages on the parent channel has just returned the STOP sentinel to a
\* process that goes on with its stop flag false
C22_Witness ==
    /\ lastCall.op = "get_messages" /\ lastCall.msg = STOP
    /\ lastCall.target = NoName
    /\ pc[lastCall.pid] = "body" /\ ~should_stop[lastCall.pid]
    /\ down[lastCall.pid] = <<>>

\* C23: the stop flag of a Messenger Process is false when the process is
\* constructed; it turns true only in a handle_messages call of that process
\* that finds the STOP sentinel at the head of the channel it reads; and once
\* true it stays true under every later operation: handle_messages,
\* get_messages, process_message, add_signal, send, add_process,
\* close_process and the scope exit.
C23_StopFlagMonotone ==
    /\ [](\A p \in Pids : pc[p] = "unborn" => ~should_stop[p])
    /\ [](nCall = 0 => \A p \in Pids : ~should_stop[p])
    /\ [][\A p \in Pids :
            /\ should_stop[p] => should_stop'[p]
            /\ (~should_stop[p] /\ should_stop'[p]) =>
                  /\ nCall' = nCall + 1
                  /\ lastCall'.pid = p /\ lastCall'.op = "handle_messages"
                  /\ link(p, lastCall'.target) # <<>>
                  /\ Head(link(p, lastCall'.target)) = STOP
                  /\ lastCall'.msg = STOP]_vars

\* the flag of the main process was set by a STOP its child sent up, and the
\* main process has called close_process since
C23_Witness ==
    /\ should_stop[Root] /\ pc[Root] = "body"
    /\ lastCall.pid = Root /\ lastCall.op = "close_process" /\ lastCall.ret = "None"
    /\ ext_proc[Root] = <<>>

\* ------------------------------------------- properties, order and liveness
\* the non-stop messages of a channel, in order
NonStop(chan) == SelectSeq(chan, LAMBDA m : ~msg_is_stop_signal(m))

\* C24: what a Messenger Process child running proc_loop has handed to
\* process_message, followed by the non-stop messages still waiting on its
\* channel, is what its parent has sent it, in send order; the STOP of
\* close_process waits behind every message sent before it; and when the
\* child's stop flag is set every message sent to it has been handed to its
\* handler, in send order: the STOP skipped none and dropped none.
C24_FifoBeforeStop ==
    \A c \in Pids :
        kind[c] = "proc_loop" =>
            /\ recvLog[c] \o NonStop(down[c]) = sentLog[c]
            /\ \A i \in 1..Len(down[c]) :
                  msg_is_stop_signal(down[c][i]) => i = Len(down[c])
            /\ should_stop[c] =>
                  /\ recvLog[c] = sentLog[c]
                  /\ dispatched[c] = sentLog[c]
                  /\ down[c] = <<>>

\* three messages were sent, two of them different; the child has
\* dispatched all three and then read the STOP of close_process
C24_Witness ==
    /\ kind[1] = "proc_loop" /\ should_stop[1] /\ pc[1] = "check"
    /\ Len(sentLog[1]) = 3 /\ sentLog[1][1] # sentLog[1][2]
    /\ dispatched[1] = sentLog[1]
    /\ stopsSent[1] = 1

\* STOP waits on the parent channel of c, and every message before it has a
\* registered handler that returns
StopPending(c) ==
    \E i \in 1..Len(down[c]) :
        /\ down[c][i] = STOP
        /\ \A j \in 1..(i - 1) :
              process_message(recognized_signals[c], down[c][j]).exc = "none"

\* the run of proc_loop in c has ended the regular way
EndedByStop(c) ==
    /\ pc[c] = "done" /\ exc[c] = NoExc
    /\ should_stop[c] /\ nTeardown[c] = 1

\* C25: under fair scheduling, a Messenger Process in proc_loop that has STOP
\* waiting on its parent channel behind messages that all have a registered
\* handler that returns, eventually sets its stop flag, leaves the loop,
\* calls teardown and terminates; the one other way its run can end is an
\* error raised by a subclass's own setup or loop_routine.
C25_StopEndsLoop ==
    \A c \in {FirstChild} :
        (kind[c] = "proc_loop" /\ InLoop(c) /\ StopPending(c))
            ~> (\/ EndedByStop(c)
                \/ pc[c] = "done" /\ exc[c].op \in {"setup", "loop_routine"})

\* the child has ended by the STOP, after dispatching two messages that were
\* waiting before it, while its parent's join had timed out
C25_Witness ==
    /\ EndedByStop(1) /\ kind[1] = "proc_loop"
    /\ Len(dispatched[1]) = 2 /\ dispatched[1] = sentLog[1]
    /\ joinTimedOut /\ pc[Root] = "done"

\* C26: a process of the tree that has left its scope has sent STOP to each
\* of the children it had; and once the scope exit of the main process has
\* begun, every process of the tree is eventually sent STOP and eventually
\* terminates, whichever joins time out on the way.
C26_TeardownCascades ==
    /\ [](\A p \in TreePids :
             (pc[p] = "done" /\ kind[p] \in {"boss_proc", "mid_level_proc"}) =>
                /\ Cardinality(registeredAtExit[p]) = Len(Script(kind[p]))
                /\ \A c \in registeredAtExit[p] : parentOf[c] = p /\ stopsSent[c] = 1)
    /\ (exiting[Root] ~>
           \A p \in TreePids : stopsSent[p] = 1 /\ pc[p] = "done")

\* the whole tree, four workers included, has terminated although a join
\* had timed out on the way
C26_Witness ==
    /\ joinTimedOut /\ pc[Root] = "done"
    /\ \A p \in TreePids : stopsSent[p] = 1 /\ pc[p] = "done"
    /\ Cardinality({p \in TreePids : kind[p] = "worker_proc"}) = NumMid * NumWorker

\* C27: a close_process call that has sent STOP returns, and the scope exit
\* of a manager returns with its table empty, whatever the children do or
\* fail to do.  When close_process returns, the child is in the state it was
\* in before (running, if it was running: it is not terminated) and is in no
\* manager's table.
C27_CloseAlwaysReturns ==
    /\ (pc[Root] = "joining" ~> pc[Root] # "joining")
    /\ (exiting[Root] ~> (pc[Root] = "done" /\ ext_proc[Root] = <<>>))
    /\ [][\A p \in Pids :
            (pc[p] = "joining" /\ pc'[p] # "joining") =>
                LET c == PidOf(ext_proc[p], joining[p]) IN
                /\ pc'[c] = pc[c]
                /\ \A q \in Pids : c \notin PidsOf(ext_proc'[q])]_vars

\* the scope exit of the main process has returned; two of its children have
\* never taken a step, their STOP still waits unread, and no table holds them
C27_Witness ==
    /\ pc[Root] = "done" /\ exc[Root] = NoExc
    /\ Cardinality({c \in Pids : /\ Alive(c) /\ parentOf[c] = Root
                                 /\ down[c] = <<STOP>>
                                 /\ \A q \in Pids : c \notin PidsOf(ext_proc[q])}) = 2

\* C28: no table ever holds a name twice; and an add_process(name) call made
\* while name is not in the table, in particular after close_process(name)
\* has removed it, returns normally, starts a new process with a new, empty
\* channel, and leaves exactly one reference for name in the table, bound to
\* that process.
C28_NameReuse ==
    /\ [](\A p \in Pids : \A i, j \in 1..Len(ext_proc[p]) :
             ext_proc[p][i].name = ext_proc[p][j].name => i = j)
    /\ [][(nCall' = nCall + 1 /\ lastCall'.op = "add_process") =>
            LET p == lastCall'.pid
                name == lastCall'.target
            IN ~HasName(ext_proc[p], name) =>
                  /\ lastCall'.ret = "None"
                  /\ exc'[p] = exc[p] /\ pc'[p] = pc[p]
                  /\ pc[nextPid] = "unborn" /\ pc'[nextPid] = "body"
                  /\ parentOf'[nextPid] = p
                  /\ down'[nextPid] = <<>> /\ up'[nextPid] = <<>>
                  /\ HasName(ext_proc'[p], name)
                  /\ PidOf(ext_proc'[p], name) = nextPid
                  /\ Cardinality({i \in 1..Len(ext_proc'[p]) :
                                     ext_proc'[p][i].name = name}) = 1
                  /\ Len(ext_proc'[p]) = Len(ext_proc[p]) + 1]_vars

\* 'child' was closed while it was running and added again: the table holds
\* one reference for the name, bound to the second process, whose channel is
\* empty, while the first process still has its STOP unread
C28_Witness ==
    /\ lastCall.op = "add_process" /\ lastCall.pid = Root /\ lastCall.ret = "None"
    /\ ext_proc[Root] = <<[name |-> "child", pid |-> 2]>>
    /\ Alive(1) /\ down[1] = <<STOP>>
    /\ Alive(2) /\ down[2] = <<>>

\* p has just called op with a Message of type HEARTBEAT
HeartbeatCall(p) ==
    /\ nCall' = nCall + 1 /\ lastCall'.pid = p
    /\ lastCall'.op \in {"handle_messages", "process_message"}
    /\ lastCall'.msg = create_message("HEARTBEAT", NoVal)

\* C29: the handler table of every Messenger Process has a HEARTBEAT entry in
\* every state and no key ever leaves it; an add_signal call sets the entry
\* of its signal and leaves every other entry as it was; and a HEARTBEAT
\* message, dispatched by handle_messages or given to process_message, finds
\* a handler and never raises the unrecognized-signal AttributeError.
C29_HeartbeatAlwaysRecognized ==
    /\ [](\A p \in Pids : recognized_signals[p]["HEARTBEAT"] # "none")
    /\ [][\A p \in Pids : \A s \in Signals :
            recognized_signals[p][s] # "none" =>
                recognized_signals'[p][s] # "none"]_vars
    /\ [][(nCall' = nCall + 1 /\ lastCall'.op = "add_signal") =>
            LET p == lastCall'.pid
                signal == lastCall'.target
            IN /\ recognized_signals'[p][signal] = "fn"
               /\ \A s \in Signals \ {signal} :
                     recognized_signals'[p][s] = recognized_signals[p][s]
               /\ \A q \in Pids \ {p} :
                     recognized_signals'[q] = recognized_signals[q]]_vars
    /\ [][\A p \in Pids : HeartbeatCall(p) =>
            /\ pmRet'[p].handler = recognized_signals[p]["HEARTBEAT"]
            /\ pmRet'[p].handler # "none"
            /\ pmRet'[p].exc # "AttributeError"
            /\ exc'[p].type # "AttributeError"]_vars

\* a process has registered handlers for STOP and for HEARTBEAT and then
\* dispatched a HEARTBEAT message to the handler it registered
C29_Witness ==
    \E p \in Pids :
        /\ recognized_signals[p]["STOP"] = "fn"
        /\ recognized_signals[p]["HEARTBEAT"] = "fn"
        /\ lastCall.pid = p /\ lastCall.op = "process_message"
        /\ lastCall.msg = create_message("HEARTBEAT", NoVal)
        /\ pmRet[p].handler = "fn"

\* the last call made before the first change_dt / reset_start_time
FirstSegmentEnd == IF ops = <<>> THEN Len(calls) ELSE ops[1].at

\* calls k, k+1, k+2 went through funcA, funcB and funcC in this order
ThroughABC(k) ==
    /\ k + 2 <= Len(fnLog)
    /\ fnLog[k] = "funcA" /\ fnLog[k + 1] = "funcB" /\ fnLog[k + 2] = "funcC"

\* C30: the calls made through funcA, funcB and funcC, in any order, have the
\* counter values, targets, sleeps and return times of the same number of
\* calls of one wrapped function entered at the same times with the same
\* body durations, on a loop constructed with the same period (and after a
\* change_dt or reset_start_time, on a fresh loop of the period then set);
\* a call continues the counter and the origin of the call before it
\* whichever function that one went through; funcA, funcB, funcC called in
\* sequence from a fresh origin at period 0.02 get the counters 1, 2, 3 and
\* last 0.02, 0.03 and 0.01.
C30_SharedSchedule ==
    /\ Len(fnLog) = Len(calls)
    /\ FirstSegmentEnd >= 1 =>
          SubSeq(calls, 1, FirstSegmentEnd)
              = Schedule(TimedLoop(calls[1].dt), 1, FirstSegmentEnd)
    /\ \A j \in 1..Len(ops) : AsFreshLoop(j, ops[j].arg)
    /\ \A k \in 2..Len(calls) :
          ~calls[k].fresh =>
              /\ calls[k].i = calls[k - 1].i + 1
              /\ calls[k].init_time = calls[k - 1].init_time
              /\ calls[k].des_end_time = calls[k - 1].des_end_time + calls[k].dt
    /\ \A k \in 1..Len(calls) :
          (ThroughABC(k) /\ Successive3(k) /\ calls[k].fresh
                         /\ calls[k].dt = Dt020) =>
             /\ calls[k].i = 1 /\ calls[k + 1].i = 2 /\ calls[k + 2].i = 3
             /\ Duration(calls[k]) = Dt020
             /\ Duration(calls[k + 1]) = Body030
             /\ Duration(calls[k + 2]) = 2 * Dt020 - Body030

\* funcA, funcB and funcC have been called in sequence on a loop of period
\* 0.02, the third call being the third step of the one schedule
C30_Witness ==
    /\ ops = <<>>
    /\ fnLog = <<"funcA", "funcB", "funcC">>
    /\ Len(calls) = 3 /\ Successive3(1) /\ calls[1].dt = Dt020
    /\ calls[3].i = 3 /\ calls[3].init_time = calls[1].start

\* ------------------------------------- properties, resync and consistency
\* the change_dt / reset_start_time / synchronize calls made after r calls
OpsAfter(r) == {j \in 1..Len(ops) : ops[j].at = r}

\* the last of them
LastOpAfter(r) == CHOOSE j \in OpsAfter(r) : \A q \in OpsAfter(r) : q <= j

\* the schedule in force after r calls was set by a resync: by synchronize()
\* called directly, or by call r at its end with nothing called after it
ResyncedAfter(r) ==
    IF OpsAfter(r) # {}
    THEN ops[LastOpAfter(r)].name = "synchronize"
    ELSE r >= 1 /\ calls[r].lookups = 1

\* the period that resync got from the lookup function
ResyncDt(r) ==
    IF OpsAfter(r) # {} THEN ops[LastOpAfter(r)].arg ELSE calls[r].desired_dt

\* the moment of that resync: time passes only in and before paced calls
ResyncTime(r) == IF r = 0 THEN 0 ELSE calls[r].ret

\* C31 as stated: the k-th call after a resync at time ts uses the period
\* dt_new the lookup returned and is targeted at ts + k*dt_new, whatever time
\* the caller lets pass before the next call.
C31_AnchoredAtResync ==
    \A k \in 1..Len(calls) :
        LET r == ResetBefore(k) IN
        ResyncedAfter(r) =>
            /\ calls[k].dt = ResyncDt(r)
            /\ calls[k].des_end_time = ResyncTime(r) + (k - r) * ResyncDt(r)

\* C31, amended: right after synchronize() the period is the value the
\* lookup returned, the counter is 0 and the origin is absent; the calls that
\* follow are anchored at the time t1 at which the first of them enters the
\* wrapper: the k-th call after the resync has counter k and is targeted at
\* t1 + k*dt_new, where t1 is the resync time ts plus the time the caller
\* let pass, so the target is ts + k*dt_new exactly when the caller made the
\* next call at once.
C31_AnchoredAtNextCall ==
    /\ ResyncedAfter(Len(calls)) =>
          /\ TL.i = 0 /\ TL.init_time = NoTime
          /\ TL.dt = ResyncDt(Len(calls))
    /\ \A k \in 1..Len(calls) :
          LET r == ResetBefore(k) IN
          ResyncedAfter(r) =>
              /\ calls[r + 1].fresh /\ calls[r + 1].start >= ResyncTime(r)
              /\ calls[k].dt = ResyncDt(r)
              /\ calls[k].i = k - r
              /\ calls[k].init_time = calls[r + 1].start
              /\ calls[k].des_end_time
                    = calls[r + 1].start + (k - r) * ResyncDt(r)
              /\ (calls[k].des_end_time = ResyncTime(r) + (k - r) * ResyncDt(r))
                    <=> (calls[r + 1].start = ResyncTime(r))

\* the second call resynchronised to another period, the caller let time
\* pass, and two calls have run on the schedule that began with the later one
C31_Witness ==
    /\ Len(calls) = 4 /\ ops = <<>>
    /\ calls[2].lookups = 1 /\ calls[2].desired_dt # calls[2].dt
    /\ calls[3].start > calls[2].ret
    /\ calls[4].i = 2 /\ calls[4].lookups = 1
    /\ calls[4].des_end_time = calls[3].start + 2 * calls[2].desired_dt

\* p has just called handle_messages and it read message m
HandledMessage(p, m) ==
    /\ nCall' = nCall + 1 /\ lastCall'.pid = p
    /\ lastCall'.op = "handle_messages" /\ lastCall'.msg = m

\* C32: msg_is_stop_signal is true of the bare STOP sentinel and false of a
\* Message whose type field is STOP; a handle_messages call that reads such
\* a Message leaves the stop flag as it was and dispatches the Message, which
\* raises the unrecognized-signal AttributeError when no handler is
\* registered for STOP and reaches the registered handler otherwise; and the
\* stop flag goes from false to true only in a handle_messages call that
\* read the bare sentinel.
C32_OnlyBareStopStops ==
    /\ [](/\ msg_is_stop_signal(STOP)
          /\ \A v \in {NoVal} \cup {m.val : m \in FreeVals} :
                ~msg_is_stop_signal(create_message("STOP", v)))
    /\ [][\A p \in Pids :
            HandledMessage(p, create_message("STOP", NoVal)) =>
               /\ should_stop'[p] = should_stop[p]
               /\ pmRet'[p] = process_message(recognized_signals[p],
                                              create_message("STOP", NoVal))
               /\ recognized_signals[p]["STOP"] = "none" =>
                     /\ lastCall'.ret = "raised"
                     /\ exc'[p] = Exc("AttributeError", "process_message")
               /\ recognized_signals[p]["STOP"] # "none" =>
                     /\ pmRet'[p].handler = recognized_signals[p]["STOP"]
                     /\ exc'[p].type # "AttributeError"]_vars
    /\ [][\A p \in Pids :
            (~should_stop[p] /\ should_stop'[p]) =>
                /\ HandledMessage(p, STOP)
                /\ pmRet'[p] = NoCall /\ lastCall'.ret = "True"]_vars

\* a process read a Message of type STOP with no handler registered for it:
\* the call raised the unrecognized-signal error and the flag is still false
C32_Witness ==
    \E p \in Pids :
        /\ lastCall.pid = p /\ lastCall.op = "handle_messages"
        /\ lastCall.msg = create_message("STOP", NoVal)
        /\ lastCall.ret = "raised"
        /\ exc[p] = Exc("AttributeError", "process_message")
        /\ ~should_stop[p]

\* C33: a handle_messages call that reads the STOP sentinel sets the stop
\* flag of the process that called it, takes the sentinel off the channel it
\* read, returns True and dispatches nothing, on the channel of a child named
\* in the call just as on the parent channel; the process goes on running.
C33_StopFromAnyChannel ==
    [][\A p \in Pids :
          HandledMessage(p, STOP) =>
              LET target == lastCall'.target IN
              /\ target \in FreeNames \cup {NoName}
              /\ link(p, target) # <<>> /\ link(p, target)[1] = STOP
              /\ LinkAfter(p, target) = Tail(link(p, target))
              /\ should_stop'[p]
              /\ \A q \in Pids \ {p} : should_stop'[q] = should_stop[q]
              /\ lastCall'.ret = "True" /\ pmRet'[p] = NoCall
              /\ pc'[p] = pc[p] /\ exc'[p] = exc[p]]_vars

\* the main process read a STOP its child had sent up, with
\* handle_messages(child), and its own stop flag is set
C33_Witness ==
    /\ lastCall.pid = Root /\ lastCall.op = "handle_messages"
    /\ lastCall.target \in FreeNames /\ lastCall.msg = STOP
    /\ should_stop[Root] /\ pc[Root] = "body"
    /\ \A c \in Pids \ {Root} : ~should_stop[c]

\* the calls made since the loop was constructed or its schedule last reset
CallsSinceReset == Len(calls) - ResetBefore(Len(calls) + 1)

\* C34: between paced calls the counter of a TimedLoop or
\* SynchronizedTimedLoop is >= 0 and equals the number of calls made since
\* construction or the last change_dt / reset_start_time / synchronize; the
\* origin is absent exactly when the counter is 0, and otherwise it is the
\* entry time of the first of those calls.
C34_CounterOriginConsistent ==
    /\ TL.class \in {"TimedLoop", "SynchronizedTimedLoop"}
    /\ TL.i >= 0
    /\ (TL.init_time = NoTime) <=> (TL.i = 0)
    /\ TL.i = CallsSinceReset
    /\ TL.i > 0 =>
          /\ TL.init_time = calls[Len(calls) - TL.i + 1].start
          /\ TL.init_time <= now

\* a synchronized loop resynchronised and was reset from outside, and has an
\* origin again after the call made since
C34_Witness ==
    /\ TL.class = "SynchronizedTimedLoop" /\ TL.iterations_per_update = 2
    /\ \E k \in 1..Len(calls) : calls[k].lookups = 1
    /\ Len(ops) >= 1 /\ ops[Len(ops)].at = Len(calls) - 1
    /\ TL.i = 1 /\ TL.init_time = calls[Len(calls)].start
====
